---------------------------- MODULE Spec2Model ----------------------------
(***************************************************************************)
(* Mixed-layer heat budget, D2-NF form (src/process_d2nf.py).              *)
(*                                                                         *)
(* Two specifications are given over one set of variables:                 *)
(*   SpecCol  applies ml_avg_Tb_Tz_sfc to one column drawn from bounded    *)
(*            sets (the Vertical Column Diagnostics as a pure function);   *)
(*   Spec     runs process_year: the start-up, the daily loop with its     *)
(*            rolling window, and the fifteen per-field output stores.     *)
(*                                                                         *)
(* Numbers.  The source computes in IEEE floating point.  The model        *)
(* computes in exact extended rationals n/d: d > 0 is a finite value in    *)
(* lowest terms, 0/0 is not-a-number, 1/0 and -1/0 are the infinities.     *)
(* Rounding (float64 arithmetic, the float32 cast of write_append) is      *)
(* outside the model.                                                      *)
(*                                                                         *)
(* Units.  TLC's integers are 32 bits wide, so the SI magnitudes of the    *)
(* source (DT*RHO*CP is about 3.5e11) cannot be multiplied exactly.  The   *)
(* model measures time in half days, length in half meridional grid steps  *)
(* and energy so that RHO*CP = 3; DT, DAY_S, DY, RHO and CP below are the  *)
(* source's constants in these units.  Every formula of the source is      *)
(* kept as written, with the constants by name.                            *)
(***************************************************************************)
EXTENDS Integers, Sequences, FiniteSets, TLC

(***************************************************************************)
(* Extended rational arithmetic (IEEE semantics for nan and inf).          *)
(***************************************************************************)
NaN  == [n |-> 0, d |-> 0]
PInf == [n |-> 1, d |-> 0]
NInf == [n |-> -1, d |-> 0]

Abs(x) == IF x < 0 THEN -x ELSE x

RECURSIVE GCD(_, _)
GCD(a, b) == IF b = 0 THEN a ELSE GCD(b, a % b)

\* n/d in lowest terms with a positive denominator (d # 0).
Norm(n, d) ==
    LET g == GCD(Abs(n), Abs(d))
        s == IF d < 0 THEN -1 ELSE 1
    IN  [n |-> s * (n \div g), d |-> s * (d \div g)]

Rat(n, d) == Norm(n, d)
I(n)      == [n |-> n, d |-> 1]
Zero      == I(0)
One       == I(1)
Half      == Rat(1, 2)

isnan(x)    == x.d = 0 /\ x.n = 0
isfinite(x) == x.d # 0
Sign(x)     == IF x.n > 0 THEN 1 ELSE IF x.n < 0 THEN -1 ELSE 0
InfOf(s)    == IF s > 0 THEN PInf ELSE NInf

Neg(a) == [n |-> -a.n, d |-> a.d]

Add(a, b) ==
    IF isnan(a) \/ isnan(b) THEN NaN
    ELSE IF a.d = 0 /\ b.d = 0 THEN (IF a.n = b.n THEN a ELSE NaN)
    ELSE IF a.d = 0 THEN a
    ELSE IF b.d = 0 THEN b
    ELSE LET g == GCD(a.d, b.d)
         IN  Norm(a.n * (b.d \div g) + b.n * (a.d \div g), (a.d \div g) * b.d)

Sub(a, b) == Add(a, Neg(b))

Mul(a, b) ==
    IF isnan(a) \/ isnan(b) THEN NaN
    ELSE IF a.d = 0 \/ b.d = 0
         THEN (IF Sign(a) * Sign(b) = 0 THEN NaN ELSE InfOf(Sign(a) * Sign(b)))
    ELSE LET g1 == GCD(Abs(a.n), b.d)
             g2 == GCD(Abs(b.n), a.d)
         IN  Norm((a.n \div g1) * (b.n \div g2), (a.d \div g2) * (b.d \div g1))

Div(a, b) ==
    IF isnan(a) \/ isnan(b) THEN NaN
    ELSE IF b.d # 0 /\ b.n = 0
         THEN (IF a.n = 0 THEN NaN ELSE InfOf(Sign(a)))
    ELSE IF b.d = 0
         THEN (IF a.d = 0 THEN NaN ELSE Zero)
    ELSE Mul(a, [n |-> Sign(b) * b.d, d |-> Abs(b.n)])

\* Comparisons: every comparison with nan is false.
Lt(a, b) ==
    IF isnan(a) \/ isnan(b) THEN FALSE
    ELSE IF a.d = 0 \/ b.d = 0
         THEN (IF a = b THEN FALSE ELSE IF a.d = 0 THEN a.n < 0 ELSE b.n > 0)
    ELSE a.n * b.d < b.n * a.d
Le(a, b) == ~isnan(a) /\ ~isnan(b) /\ ~Lt(b, a)
Gt(a, b) == Lt(b, a)
Ge(a, b) == Le(b, a)

\* Python's builtin min(a, b): b if b < a else a.
pymin(a, b) == IF Lt(b, a) THEN b ELSE a

\* np.minimum / np.maximum / np.clip / abs: nan propagates.
npminimum(a, b) == IF isnan(a) \/ isnan(b) THEN NaN ELSE IF Lt(b, a) THEN b ELSE a
npmaximum(a, b) == IF isnan(a) \/ isnan(b) THEN NaN ELSE IF Lt(a, b) THEN b ELSE a
npclip(x, lo, hi) == npminimum(npmaximum(x, lo), hi)
absval(a) == [n |-> Abs(a.n), d |-> a.d]

(***************************************************************************)
(* Program constants, in model units.                                      *)
(***************************************************************************)
\* DT = 86400.0 s: one day, two model time units.
DT == 2
\* the literal 86400.0 (seconds per day) of the cap conversions.
DAY_S == 2
RHO == 1
CP == 3
\* dy = 2*PI*RE*(1/12)/360: one meridional grid step, two model length units.
DY == 2

(***************************************************************************)
(* Arrays are functions on 0-based index ranges, as in the source.         *)
(* A negative index addresses from the end, as numpy does.                 *)
(***************************************************************************)
\* An array holds its element values: TLC would otherwise keep the constructor
\* [x \in S |-> e] unevaluated and evaluate e again at every access.
Array(f) == f @@ <<>>

NzOf(depth) == Cardinality(DOMAIN depth)
At(arr, len, idx) == arr[IF idx < 0 THEN idx + len ELSE idx]

\* (variant: the boundaries are put at the level centres)
zhalf_centres(depth) ==
    LET nz == NzOf(depth)
    IN  Array([k \in 0..nz |-> IF k = 0 THEN Zero ELSE depth[k-1]])

\* half-level boundaries z_{k+1/2}
zhalfOf(depth) ==
    LET nz == NzOf(depth)
    IN  Array([k \in 0..nz |->
            IF k = 0 THEN Zero
            ELSE IF k < nz THEN Mul(Half, Add(depth[k-1], depth[k]))
            ELSE IF nz >= 2
                 THEN Add(depth[nz-1], Mul(Half, Sub(depth[nz-1], depth[nz-2])))
                 ELSE Add(depth[nz-1], One)])

\* (variant: the whole level thickness, not clipped at h)
OverlapW_noclip(zhalf, h, k) == Sub(zhalf[k+1], zhalf[k])

\* overlap of level k with [0,h]: w = min(h, zh) - zl
OverlapW(zhalf, h, k) == Sub(pymin(h, zhalf[k+1]), zhalf[k])

\* for k in range(k0, kbot): break once h <= zl; accumulate X[k]*w when w > 0
RECURSIVE OverlapSum(_, _, _, _, _, _)
OverlapSum(X, zhalf, h, kbot, k, acc) ==
    IF k >= kbot THEN acc
    ELSE IF Le(h, zhalf[k]) THEN acc
    ELSE LET w == OverlapW(zhalf, h, k)
         IN  OverlapSum(X, zhalf, h, kbot, k + 1,
                        IF Gt(w, Zero) THEN Add(acc, Mul(X[k], w)) ELSE acc)

\* np.searchsorted(arr[:n], key, side='right'): binary search
RECURSIVE searchsorted_right(_, _, _, _)
searchsorted_right(arr, key, lo, hi) ==
    IF lo >= hi THEN lo
    ELSE LET mid == lo + ((hi - lo) \div 2)
         IN  IF Lt(key, arr[mid])
             THEN searchsorted_right(arr, key, lo, mid)
             ELSE searchsorted_right(arr, key, mid + 1, hi)

AllNaN == [Tm |-> NaN, Um |-> NaN, Vm |-> NaN, Tb |-> NaN, TzH |-> NaN, T0 |-> NaN]

\* the clipped mixed-layer depth of a valid column
ClipH(h0, depth, kbot) == IF Gt(h0, depth[kbot-1]) THEN depth[kbot-1] ELSE h0

\* (variant: always the top-level value, no extrapolation)
SurfaceT_toplevel(Tc, depth, kbot) == Tc[0]

\* T(0): linear extrapolation from the top two levels (fallback: k=0)
SurfaceT(Tc, depth, kbot) ==
    LET z0 == depth[0]
        t0 == IF kbot >= 2 /\ isfinite(Tc[0]) /\ isfinite(Tc[1]) /\ Gt(depth[1], z0)
              THEN Sub(Tc[0], Mul(Div(Sub(Tc[1], Tc[0]), Sub(depth[1], z0)), z0))
              ELSE NaN
    IN  IF ~isfinite(t0) THEN Tc[0] ELSE t0

\* (variant: h is not searched for, the top pair of levels is taken)
PairPos_top(depth, kbot, h) == IF kbot >= 2 THEN 0 ELSE kbot - 2

\* index of the level pair containing h, as the source clamps it
PairPos(depth, kbot, h) ==
    LET p0 == searchsorted_right(depth, h, 0, kbot) - 1
        p1 == IF p0 < 0 THEN 0 ELSE p0
    IN  IF p1 >= kbot - 1 THEN kbot - 2 ELSE p1

\* (variant: only the depths of the pair are tested)
PairOk_depthonly(zlo, zhi, Tlo, Thi) == Gt(zhi, zlo)

\* the test of the level pair: (zhi > zlo) and both temperatures finite
PairOk(zlo, zhi, Tlo, Thi) == Gt(zhi, zlo) /\ isfinite(Tlo) /\ isfinite(Thi)

\* (variant: only land is skipped)
SkipColumn_landonly(kbot, h0) == kbot <= 0

\* the two "continue" tests: land, or a non-finite or non-positive depth
SkipColumn(kbot, h0) == kbot <= 0 \/ ~isfinite(h0) \/ Le(h0, Zero)

\* the body of the (j,i) loop of ml_avg_Tb_Tz_sfc for one column
MLColumn(Tc, Uc, Vc, h0, depth, kbot) ==
    IF SkipColumn(kbot, h0) THEN AllNaN
    ELSE
    LET nz    == NzOf(depth)
        zhalf == zhalfOf(depth)
        h     == ClipH(h0, depth, kbot)
        ts    == OverlapSum(Tc, zhalf, h, kbot, 0, Zero)
        us    == OverlapSum(Uc, zhalf, h, kbot, 0, Zero)
        vs    == OverlapSum(Vc, zhalf, h, kbot, 0, Zero)
        tm    == IF Gt(h, Zero) THEN Div(ts, h) ELSE NaN
        um    == IF Gt(h, Zero) THEN Div(us, h) ELSE NaN
        vm    == IF Gt(h, Zero) THEN Div(vs, h) ELSE NaN
        pos   == PairPos(depth, kbot, h)
        zlo   == At(depth, nz, pos)
        zhi   == At(depth, nz, pos + 1)
        Tlo   == At(Tc, nz, pos)
        Thi   == At(Tc, nz, pos + 1)
        ok    == PairOk(zlo, zhi, Tlo, Thi)
        alpha == Div(Sub(h, zlo), Sub(zhi, zlo))
    IN  [Tm  |-> tm, Um |-> um, Vm |-> vm,
         Tb  |-> IF ok THEN Add(Tlo, Mul(alpha, Sub(Thi, Tlo))) ELSE tm,
         TzH |-> IF ok THEN Div(Sub(Thi, Tlo), Sub(zhi, zlo)) ELSE Zero,
         T0  |-> SurfaceT(Tc, depth, kbot)]


(***************************************************************************)
(* Bounds of the model.                                                    *)
(***************************************************************************)
\* grid shape (Nz, Ny, Nx = T0.shape) of the year runs
Nz == 4
Ny == 3
Nx == 3
\* the largest number of daily files a year holds
MaxFiles == 5

None  == <<>>
Cells == (0..Ny-1) \X (0..Nx-1)
Lv    == 0..Nz-1

(***************************************************************************)
(* Horizontal derivative operators.                                        *)
(***************************************************************************)
\* the cells of an array of shape (ny, nx)
Shape(ny, nx) == (0..ny-1) \X (0..nx-1)

\* a slice bound of Python on an axis of n cells
SliceIdx(i, n) == IF i < 0 THEN (IF n + i < 0 THEN 0 ELSE n + i)
                           ELSE (IF i > n THEN n ELSE i)

\* (variant: divides by the spacing, not by twice the spacing)
ddx_c_onestep(field, dx_row, ny, nx) ==
    Array([c \in Shape(ny, nx) |->
        IF c[2] >= 1 /\ c[2] <= nx - 2
        THEN Div(Sub(field[<<c[1], c[2]+1>>], field[<<c[1], c[2]-1>>]), dx_row[c[1]])
        ELSE NaN])

\* out[:, 1:-1] = (field[:, 2:] - field[:, 0:-2]) / (2*dx_row[:, None]);
\* ny, nx: the shape of field
ddx_c(field, dx_row, ny, nx) ==
    Array([c \in Shape(ny, nx) |->
        IF c[2] >= SliceIdx(1, nx) /\ c[2] < SliceIdx(-1, nx)
        THEN Div(Sub(field[<<c[1], c[2] - SliceIdx(1, nx) + SliceIdx(2, nx)>>],
                     field[<<c[1], c[2] - SliceIdx(1, nx) + SliceIdx(0, nx)>>]),
                 Mul(I(2), dx_row[c[1]]))
        ELSE NaN])

\* out[1:-1, :] = (field[2:, :] - field[0:-2, :]) / (2*dy)
ddy_c(field, dy, ny, nx) ==
    Array([c \in Shape(ny, nx) |->
        IF c[1] >= SliceIdx(1, ny) /\ c[1] < SliceIdx(-1, ny)
        THEN Div(Sub(field[<<c[1] - SliceIdx(1, ny) + SliceIdx(2, ny), c[2]>>],
                     field[<<c[1] - SliceIdx(1, ny) + SliceIdx(0, ny), c[2]>>]),
                 Mul(I(2), dy))
        ELSE NaN])

(***************************************************************************)
(* Vertical Column Diagnostics over the grid.                              *)
(***************************************************************************)
ColOf(X3d, c) == Array([k \in DOMAIN X3d |-> X3d[k][c]])

\* (variant: a column is given the mixed-layer depth of its eastern neighbour)
ml_avg_neighbour_h(T3d, U3d, V3d, H2d, depth, topo) ==
    Array([c \in Cells |->
        MLColumn(ColOf(T3d, c), ColOf(U3d, c), ColOf(V3d, c),
                 H2d[<<c[1], (c[2] + 1) % Nx>>], depth, topo[c])])

\* the (j,i) loop: every local of the body is assigned before it is read in
\* the same iteration, and iteration (j,i) writes the six outputs at (j,i)
\* only, over their not-a-number fill
ml_avg_Tb_Tz_sfc(T3d, U3d, V3d, H2d, depth, topo) ==
    Array([c \in Cells |->
        MLColumn(ColOf(T3d, c), ColOf(U3d, c), ColOf(V3d, c), H2d[c], depth, topo[c])])

(***************************************************************************)
(* Inputs of a year.  indir holds one of two datasets: "coast" has land    *)
(* in the corner column <<0,0>> only, "island" also in the interior        *)
(* column <<1,1>>.  Every daily file holds one of the day patterns "A" and *)
(* "B"; the flux record of a transition is the one that belongs to the     *)
(* file opened in that iteration.  The special columns sit in the corners  *)
(* of the grid, so that the interior column <<1,1>> of "coast" has four    *)
(* ocean neighbours:                                                       *)
(*   <<0,0>>        land: every input is nan                               *)
(*   <<0,Nx-1>>     two finite levels in "A", one in "B"                   *)
(*   <<Ny-1,0>>     a mixed layer thinner than hmin in "A"                 *)
(*   <<Ny-1,Nx-1>>  a mixed-layer depth of 0 in "B"                        *)
(***************************************************************************)
Datasets == {"coast", "island"}
Patterns == {"A", "B"}

\* depth coordinate of the dataset: level centres 5, 15, 25, ...
GridDepth == Array([k \in Lv |-> I(5 + 10 * k)])

\* cos(deg2rad(lat1d)): rows alternate between latitude 0 and latitude 60
CosLat == Array([j \in 0..Ny-1 |-> IF j % 2 = 1 THEN Half ELSE One])

\* number of finite temperature levels of a column in a file
NLev(ds, p, c) ==
    IF c = <<0, 0>> THEN 0
    ELSE IF ds = "island" /\ c = <<1, 1>> THEN 0
    ELSE IF c = <<0, Nx-1>> THEN (IF p = "B" THEN 1 ELSE 2)
    ELSE Nz

FileT(ds, p) ==
    Array([k \in Lv |-> Array([c \in Cells |->
        IF k >= NLev(ds, p, c) THEN NaN
        ELSE I((IF p = "B" THEN 23 ELSE 20) - 2 * k + c[2] + 2 * c[1])])])

FileU(ds, p) ==
    Array([k \in Lv |-> Array([c \in Cells |->
        IF k >= NLev(ds, p, c) THEN NaN
        ELSE IF p = "B" THEN I(2 - c[1]) ELSE I(1 + c[2])])])

FileV(ds, p) ==
    Array([k \in Lv |-> Array([c \in Cells |->
        IF k >= NLev(ds, p, c) THEN NaN
        ELSE IF p = "B" THEN I(c[2]) ELSE I(-1)])])

FileH(ds, p) ==
    Array([c \in Cells |->
        IF NLev(ds, p, c) = 0 THEN NaN
        ELSE IF p = "B"
             THEN (IF c = <<Ny-1, Nx-1>> THEN Zero ELSE I(20 + 10 * ((c[1] + c[2]) % 2)))
             ELSE (IF c = <<Ny-1, 0>> THEN I(4) ELSE I(10 + 10 * ((c[1] + 2 * c[2]) % 3)))])

FluxRec(ds, p) ==
    Array([c \in Cells |->
        IF NLev(ds, p, c) = 0
        THEN [sw |-> NaN, lw |-> NaN, lhf |-> NaN, shf |-> NaN]
        ELSE [sw |-> Zero, lw |-> I(-3 - c[2]), lhf |-> I(-2),
              shf |-> IF p = "B" THEN I(9) ELSE I(1 + c[1])]])

(***************************************************************************)
(* Configurations of process_year (its keyword arguments).                 *)
(***************************************************************************)
WeModes == {"dhdt", "centered", "deepening", "full"}

\* the defaults (cooling only, no cap, denominator h), or every option changed
Options ==
    { [ent_only_cooling |-> TRUE, we_cap_md |-> None, dT_cap |-> None,
       ent_cap_kpd |-> None, use_hbar_denom |-> FALSE],
      [ent_only_cooling |-> FALSE, we_cap_md |-> I(1), dT_cap |-> I(-2),
       ent_cap_kpd |-> I(3), use_hbar_denom |-> TRUE] }

Configs ==
    { [we_mode |-> m, ent_only_cooling |-> q.ent_only_cooling,
       we_cap_md |-> q.we_cap_md, dT_cap |-> q.dT_cap, ent_cap_kpd |-> q.ent_cap_kpd,
       use_hbar_denom |-> q.use_hbar_denom,
       ah |-> I(1), kv |-> Half, hmin |-> I(10)] :
      m \in WeModes, q \in Options }

(***************************************************************************)
(* The terms of one day (the body of the daily loop).                      *)
(***************************************************************************)
\* (variant: the number of finite levels, wherever they lie)
TopoOf_count(T3d) ==
    Array([c \in Cells |-> Cardinality({k \in Lv : isfinite(T3d[k][c])})])

\* topo: first missing level index of each column of the first day
TopoOf(T3d) ==
    Array([c \in Cells |->
        IF \A k \in Lv : isfinite(T3d[k][c]) THEN Nz
        ELSE CHOOSE k \in Lv : ~isfinite(T3d[k][c]) /\ \A m \in 0..k-1 : isfinite(T3d[m][c])])

\* (variant: the zonal spacing without the cosine of the latitude)
dx_row_nocos == Array([j \in 0..Ny-1 |-> I(DY)])

dx_rowOf == Array([j \in 0..Ny-1 |-> Mul(I(DY), CosLat[j])])

\* np.where(H < hmin, hmin, H)
FloorH(H, hmin) == Array([c \in Cells |-> IF Lt(H[c], hmin) THEN hmin ELSE H[c]])

HdenOf(cfg, H0, H1) ==
    LET Hc == FloorH(H0, cfg.hmin)
    IN  IF cfg.use_hbar_denom
        THEN LET Hn == FloorH(H1, cfg.hmin)
             IN  Array([c \in Cells |-> Mul(Half, Add(Hc[c], Hn[c]))])
        ELSE Hc

\* R_SW*exp(-h/GAM1) + (1-R_SW)*exp(-h/GAM2) is not rational.  Every modelled
\* shortwave flux is 0 or nan, so only its being a finite number is kept.
Transmittance(h) == IF isnan(h) THEN NaN ELSE Half

QNETof(flux, H0, hden) ==
    Array([c \in Cells |->
        LET Qnet_sfc == Add(Add(Add(flux[c].sw, flux[c].lw), flux[c].lhf), flux[c].shf)
            qh       == Mul(flux[c].sw, Transmittance(H0[c]))
        IN  Div(Sub(Qnet_sfc, qh), Mul(I(RHO * CP), hden[c]))])

ADVof(Tm, Um, Vm) ==
    LET Tmx == ddx_c(Tm, dx_rowOf, Ny, Nx)
        Tmy == ddy_c(Tm, I(DY), Ny, Nx)
    IN  Array([c \in Cells |-> Neg(Add(Mul(Um[c], Tmx[c]), Mul(Vm[c], Tmy[c])))])

\* ht: the time difference of the mixed-layer depth
HtOf(cfg, H0, H1, Hprev) ==
    IF cfg.we_mode = "centered" /\ Hprev # None
    THEN Array([c \in Cells |-> Div(Sub(H1[c], Hprev[c]), I(2 * DT))])
    ELSE Array([c \in Cells |-> Div(Sub(H1[c], H0[c]), I(DT))])

WeDivOf(H0, Um, Vm) ==
    LET div_hu == ddx_c(Array([c \in Cells |-> Mul(H0[c], Um[c])]), dx_rowOf, Ny, Nx)
        div_hv == ddy_c(Array([c \in Cells |-> Mul(H0[c], Vm[c])]), I(DY), Ny, Nx)
    IN  Array([c \in Cells |-> Add(div_hu[c], div_hv[c])])

\* the mode chain: dhdt / deepening / else
WeModeOf(we_mode, we_dhdt, we_div) ==
    IF we_mode = "dhdt" THEN we_dhdt
    ELSE IF we_mode = "deepening"
         THEN Array([c \in Cells |->
                 IF Gt(Add(we_dhdt[c], we_div[c]), Zero)
                 THEN Add(we_dhdt[c], we_div[c]) ELSE Zero])
    ELSE Array([c \in Cells |-> Add(we_dhdt[c], we_div[c])])

WeCapOf(cfg, we) ==
    IF cfg.we_cap_md # None
    THEN LET cap == Div(cfg.we_cap_md, I(DAY_S))
         IN  Array([c \in Cells |-> npclip(we[c], Neg(cap), cap)])
    ELSE we

\* (variant: the cap on dT is used with its sign)
DTeff_signedcap(cfg, dT) ==
    IF cfg.dT_cap # None
    THEN Array([c \in Cells |-> npclip(dT[c], Neg(cfg.dT_cap), cfg.dT_cap)])
    ELSE dT

\* dT cap only for ENT: np.clip(dT, -abs(dT_cap), abs(dT_cap))
DTeffOf(cfg, dT) ==
    IF cfg.dT_cap # None
    THEN Array([c \in Cells |-> npclip(dT[c], Neg(absval(cfg.dT_cap)), absval(cfg.dT_cap))])
    ELSE dT

\* (variant: the cooling-only filter is left out)
ENT_unfiltered(cfg, we, hden, dT_eff) ==
    LET e0 == Array([c \in Cells |-> Mul(Neg(Div(we[c], hden[c])), dT_eff[c])])
    IN  IF cfg.ent_cap_kpd # None
        THEN LET cap_s == Div(cfg.ent_cap_kpd, I(DAY_S))
             IN  Array([c \in Cells |-> npclip(e0[c], Neg(cap_s), cap_s)])
        ELSE e0

ENTof(cfg, we, hden, dT_eff) ==
    LET e0 == Array([c \in Cells |-> Mul(Neg(Div(we[c], hden[c])), dT_eff[c])])
        e1 == IF cfg.ent_only_cooling
              THEN Array([c \in Cells |-> IF Lt(e0[c], Zero) THEN e0[c] ELSE Zero])
              ELSE e0
    IN  IF cfg.ent_cap_kpd # None
        THEN LET cap_s == Div(cfg.ent_cap_kpd, I(DAY_S))
             IN  Array([c \in Cells |->
                    npclip(e1[c], Neg(cap_s), IF cfg.ent_only_cooling THEN Zero ELSE cap_s)])
        ELSE e1

DIFFof(cfg, Tm, dT, H0, hden) ==
    Array([c \in Cells |->
        LET j == c[1]
            i == c[2]
        IN
        IF ~(j >= 1 /\ j <= Ny - 2 /\ i >= 1 /\ i <= Nx - 2) THEN NaN
        ELSE IF ~(isfinite(Tm[c]) /\ isfinite(H0[c])) THEN NaN
        ELSE
        LET dxj == dx_rowOf[j]
            dy  == I(DY)
            ip  == <<j, i+1>>
            im  == <<j, i-1>>
            jp  == <<j+1, i>>
            jm  == <<j-1, i>>
            hTx_ip  == Div(Mul(H0[ip], Sub(Tm[ip], Tm[c])), dxj)
            hTx_im  == Div(Mul(H0[c],  Sub(Tm[c],  Tm[im])), dxj)
            dThx_ip == Div(Mul(dT[ip], Sub(H0[ip], H0[c])), dxj)
            dThx_im == Div(Mul(dT[c],  Sub(H0[c],  H0[im])), dxj)
            hTy_jp  == Div(Mul(H0[jp], Sub(Tm[jp], Tm[c])), dy)
            hTy_jm  == Div(Mul(H0[c],  Sub(Tm[c],  Tm[jm])), dy)
            dThy_jp == Div(Mul(dT[jp], Sub(H0[jp], H0[c])), dy)
            dThy_jm == Div(Mul(dT[c],  Sub(H0[c],  H0[jm])), dy)
            div1 == Add(Div(Sub(hTx_ip, hTx_im), dxj), Div(Sub(hTy_jp, hTy_jm), dy))
            div2 == Add(Div(Sub(dThx_ip, dThx_im), dxj), Div(Sub(dThy_jp, dThy_jm), dy))
        IN  Mul(Div(cfg.ah, hden[c]), Sub(div1, div2))])

DIFFVof(cfg, Tz_mh, hden) ==
    Array([c \in Cells |-> Div(Neg(Mul(cfg.kv, Tz_mh[c])), hden[c])])

AllNaN2d == Array([c \in Cells |-> NaN])

\* (variant: the forward difference divided by the centered step)
TEN_F_centredstep(Tm, Tmprev) ==
    IF Tmprev = None THEN AllNaN2d
    ELSE Array([c \in Cells |-> Div(Sub(Tm[c], Tmprev[c]), I(2 * DT))])

TEN_Fof(Tm, Tmprev) ==
    IF Tmprev = None THEN AllNaN2d
    ELSE Array([c \in Cells |-> Div(Sub(Tm[c], Tmprev[c]), I(DT))])

\* Tm_next is the mixed-layer mean of the day just opened (T1, U1, V1, H1)
TEN_Cof(Tm_next, Tmprev, Tmprevprev) ==
    IF Tmprev = None THEN AllNaN2d
    ELSE IF Tmprevprev = None THEN AllNaN2d
    ELSE Array([c \in Cells |-> Div(Sub(Tm_next[c], Tmprevprev[c]), I(2 * DT))])

\* (variant: the vertical diffusion is left out of the sum)
RHS_noDIFFV(QNET, ADV, ENT, DIFF, DIFFV) ==
    Array([c \in Cells |-> Add(Add(Add(QNET[c], ADV[c]), ENT[c]), DIFF[c])])

RHSof(QNET, ADV, ENT, DIFF, DIFFV) ==
    Array([c \in Cells |-> Add(Add(Add(Add(QNET[c], ADV[c]), ENT[c]), DIFF[c]), DIFFV[c])])

CLOSof(TEN, RHS) == Array([c \in Cells |-> Sub(TEN[c], RHS[c])])


(***************************************************************************)
(* State.                                                                  *)
(***************************************************************************)
VARIABLES
    dataset,       \* what indir holds
    pc,            \* position in process_year: "start", "loop", "done", "failed"; "idle" under SpecCol
    cfg,           \* the keyword arguments of process_year
    nfiles,        \* len(files)
    ti,            \* loop index of the daily loop
    days,          \* the patterns held by files[0 .. ti-1], in the order they were opened
    topo,          \* bottom index of every column
    T0, U0, V0, H0,            \* current-day buffers
    Tm_prev, Tm_prev_prev, H_prev,   \* rolling window
    we_use,        \* the entrainment velocity of the last iteration (a local of the loop)
    stores,        \* the fifteen per-field output stores: name -> sequence of records
    colIn, colOut, \* SpecCol: one column handed to ml_avg_Tb_Tz_sfc, and its result
    fnIn, fnOut,   \* SpecEnt, SpecDdx, SpecPair: the arguments of a call, and its result
    drv            \* SpecMain: the state of main (the driver over the years)

vars == <<dataset, pc, cfg, nfiles, ti, days, topo, T0, U0, V0, H0,
          Tm_prev, Tm_prev_prev, H_prev, we_use, stores, colIn, colOut,
                   fnIn, fnOut, drv>>

StoreNames == {"TML", "TB", "T0", "UML", "VML", "MLD", "TEN_F", "TEN_C",
               "ADV", "QNET", "ENT", "DIFF", "DIFFV", "CLOSF", "CLOSC"}

\* a store that does not exist holds no record
NoStores    == [f \in StoreNames |-> <<>>]
\* stores left by an earlier run of the same year: one record each
StaleStores == [f \in StoreNames |-> << Array([c \in Cells |-> Zero]) >>]

(***************************************************************************)
(* One pass of the daily loop body: every field written for the day.       *)
(***************************************************************************)
\* the six 2-D fields ml_avg_Tb_Tz_sfc returns
MLFields(ml) ==
    [Tm  |-> Array([c \in Cells |-> ml[c].Tm]),
     Um  |-> Array([c \in Cells |-> ml[c].Um]),
     Vm  |-> Array([c \in Cells |-> ml[c].Vm]),
     Tb  |-> Array([c \in Cells |-> ml[c].Tb]),
     TzH |-> Array([c \in Cells |-> ml[c].TzH]),
     T0  |-> Array([c \in Cells |-> ml[c].T0])]

\* RHS, the residuals and the fifteen records written for the day
DayRecord(H, m, we, QNET, ADV, ENT, DIFF, DIFFV, TEN_F, TEN_C) ==
    LET RHS == RHSof(QNET, ADV, ENT, DIFF, DIFFV)
    IN  [TML |-> m.Tm, TB |-> m.Tb, T0 |-> m.T0, UML |-> m.Um, VML |-> m.Vm, MLD |-> H,
         TEN_F |-> TEN_F, TEN_C |-> TEN_C, ADV |-> ADV, QNET |-> QNET, ENT |-> ENT,
         DIFF |-> DIFF, DIFFV |-> DIFFV,
         CLOSF |-> CLOSof(TEN_F, RHS), CLOSC |-> CLOSof(TEN_C, RHS),
         we |-> we]

\* the five terms and the two tendencies, from dT, hden and w_e
DayTerms(c0, H, flux, Tmp, Tmpp, m, TmNx, dT, hden, we) ==
    DayRecord(H, m, we,
              QNETof(flux, H, hden),
              ADVof(m.Tm, m.Um, m.Vm),
              ENTof(c0, we, hden, DTeffOf(c0, dT)),
              DIFFof(c0, m.Tm, dT, H, hden),
              DIFFVof(c0, m.TzH, hden),
              TEN_Fof(m.Tm, Tmp),
              TEN_Cof(TmNx, Tmp, Tmpp))

\* dT, the denominator and the entrainment speed, from the diagnostics m of
\* the day and the mean TmNx of the day just opened
DayFromML(c0, b0, b1, flux, Tmp, Tmpp, Hp, m, TmNx) ==
    DayTerms(c0, b0.H, flux, Tmp, Tmpp, m, TmNx,
             Array([c \in Cells |-> Sub(m.Tm[c], m.Tb[c])]),
             HdenOf(c0, b0.H, b1.H),
             WeCapOf(c0, WeModeOf(c0.we_mode, HtOf(c0, b0.H, b1.H, Hp),
                                  WeDivOf(b0.H, m.Um, m.Vm))))

DayFields(c0, b0, b1, flux, tp, Tmp, Tmpp, Hp) ==
    DayFromML(c0, b0, b1, flux, Tmp, Tmpp, Hp,
              MLFields(ml_avg_Tb_Tz_sfc(b0.T, b0.U, b0.V, b0.H, GridDepth, tp)),
              IF Tmp # None /\ Tmpp # None
              THEN MLFields(ml_avg_Tb_Tz_sfc(b1.T, b1.U, b1.V, b1.H, GridDepth, tp)).Tm
              ELSE None)

(***************************************************************************)
(* process_year.                                                           *)
(***************************************************************************)
Init ==
    /\ dataset \in Datasets
    /\ pc = "start"
    /\ cfg \in Configs
    /\ nfiles \in 0..MaxFiles
    /\ stores \in {NoStores, StaleStores}
    /\ ti = 0
    /\ days = <<>>
    /\ topo = None
    /\ T0 = None /\ U0 = None /\ V0 = None /\ H0 = None
    /\ Tm_prev = None /\ Tm_prev_prev = None /\ H_prev = None
    /\ we_use = None
    /\ colIn = None /\ colOut = None
    /\ fnIn = None /\ fnOut = None /\ drv = None

\* (variant: the old stores are removed before the number of files is tested)
TooFewFiles_aftercleaning ==
    /\ pc = "start"
    /\ nfiles < 3
    /\ pc' = "failed"
    /\ stores' = NoStores
    /\ UNCHANGED <<dataset, cfg, nfiles, ti, days, topo, T0, U0, V0, H0,
                   Tm_prev, Tm_prev_prev, H_prev, we_use, colIn, colOut,
                   fnIn, fnOut, drv>>

\* len(files) < 3: RuntimeError before anything is opened or removed
TooFewFiles ==
    /\ pc = "start"
    /\ nfiles < 3
    /\ pc' = "failed"
    /\ UNCHANGED <<dataset, cfg, nfiles, ti, days, topo, T0, U0, V0, H0,
                   Tm_prev, Tm_prev_prev, H_prev, we_use, stores, colIn, colOut,
                   fnIn, fnOut, drv>>

\* (variant: the old stores are left in place)
CleanOld_skipped(st) == st

\* clean old: every store that exists is removed
CleanOld(st) == [f \in DOMAIN st |-> <<>>]

\* day-0 arrays, topo, removal of the old stores, the empty window
Start ==
    /\ pc = "start"
    /\ nfiles >= 3
    /\ \E p \in Patterns :
          /\ days' = <<p>>
          /\ T0' = FileT(dataset, p) /\ U0' = FileU(dataset, p)
          /\ V0' = FileV(dataset, p) /\ H0' = FileH(dataset, p)
          /\ topo' = TopoOf(FileT(dataset, p))
    /\ stores' = CleanOld(stores)
    /\ Tm_prev' = None /\ Tm_prev_prev' = None /\ H_prev' = None
    /\ we_use' = None
    /\ ti' = 1
    /\ pc' = "loop"
    /\ UNCHANGED <<dataset, cfg, nfiles, colIn, colOut, fnIn, fnOut, drv>>

\* (variant: the two assignments in the other order)
RollWindow_late(Tmp, Tm, H) == [Tm_prev_prev |-> Tm, Tm_prev |-> Tm, H_prev |-> H]

\* (variant: the newest mean is not put into the window)
RollWindow_stale(Tmp, Tm, H) == [Tm_prev_prev |-> Tmp, Tm_prev |-> Tmp, H_prev |-> H]

\* roll: Tm_prev_prev = Tm_prev; Tm_prev = Tm; H_prev = H0
RollWindow(Tmp, Tm, H) == [Tm_prev_prev |-> Tmp, Tm_prev |-> Tm, H_prev |-> H]

\* the arrays read from the file opened in an iteration
FileOf(ds, p) ==
    [T |-> FileT(ds, p), U |-> FileU(ds, p), V |-> FileV(ds, p), H |-> FileH(ds, p)]

\* one iteration of "for ti in range(1, len(files))"
Day ==
    /\ pc = "loop"
    /\ ti < nfiles
    /\ \E p \in Patterns :
       \E b1 \in {FileOf(dataset, p)} :
       \E out \in {DayFields(cfg, [T |-> T0, U |-> U0, V |-> V0, H |-> H0], b1,
                             FluxRec(dataset, p), topo, Tm_prev, Tm_prev_prev, H_prev)} :
          /\ days' = Append(days, p)
          /\ stores' = [f \in StoreNames |-> Append(stores[f], out[f])]
          /\ we_use' = out.we
          /\ \E w \in {RollWindow(Tm_prev, out.TML, H0)} :
                /\ Tm_prev_prev' = w.Tm_prev_prev
                /\ Tm_prev' = w.Tm_prev
                /\ H_prev' = w.H_prev
          /\ T0' = b1.T /\ U0' = b1.U /\ V0' = b1.V /\ H0' = b1.H
    /\ ti' = ti + 1
    /\ UNCHANGED <<dataset, pc, cfg, nfiles, topo, colIn, colOut, fnIn, fnOut, drv>>

\* np.dtype(np.float32).itemsize
ITEM == 4

\* len(buf) after f.seek(off); f.read(ny*nx*item) on a file of nbytes bytes
ReadLen(nbytes, idx, ny, nx) ==
    LET off   == idx * ny * nx * ITEM
        avail == IF nbytes > off THEN nbytes - off ELSE 0
    IN  IF avail < ny * nx * ITEM THEN avail ELSE ny * nx * ITEM

\* read_rec_2d returns a record: it raises IOError unless the read is full
read_rec_2d_returns(nbytes, idx, ny, nx) == ReadLen(nbytes, idx, ny, nx) = ny * nx * ITEM

\* sizes of a flux file around record idx: empty, ending before the record,
\* inside it, one byte short of its end, and holding it
FluxSizes(idx) == {0, idx * Ny * Nx * ITEM, idx * Ny * Nx * ITEM + 1,
                   (idx + 1) * Ny * Nx * ITEM - 1, (idx + 1) * Ny * Nx * ITEM}

FluxFiles == {"sw", "lw", "lhf", "shf"}

\* (variant: the fluxes are read after the first store has been written)
FluxReadFails_afterwrite ==
    /\ pc = "loop"
    /\ ti < nfiles
    /\ \E f \in FluxFiles : \E nbytes \in FluxSizes(ti - 1) :
          ~read_rec_2d_returns(nbytes, ti - 1, Ny, Nx)
    /\ stores' = [stores EXCEPT !["TML"] = Append(@, Array([c \in Cells |-> NaN]))]
    /\ pc' = "failed"
    /\ UNCHANGED <<dataset, cfg, nfiles, ti, days, topo, T0, U0, V0, H0,
                   Tm_prev, Tm_prev_prev, H_prev, we_use, colIn, colOut,
                   fnIn, fnOut, drv>>

\* an iteration in which one of the four flux files is too short for record
\* base+ti-1 (the year is 1993, base = 0): read_rec_2d raises IOError after
\* file ti was opened and before anything is computed or written.  Day is
\* the iteration in which all four reads return.
FluxReadFails ==
    /\ pc = "loop"
    /\ ti < nfiles
    /\ \E f \in FluxFiles : \E nbytes \in FluxSizes(ti - 1) :
          ~read_rec_2d_returns(nbytes, ti - 1, Ny, Nx)
    /\ pc' = "failed"
    /\ UNCHANGED <<dataset, cfg, nfiles, ti, days, topo, T0, U0, V0, H0,
                   Tm_prev, Tm_prev_prev, H_prev, we_use, stores, colIn, colOut,
                   fnIn, fnOut, drv>>

\* the loop is exhausted
Finish ==
    /\ pc = "loop"
    /\ ti >= nfiles
    /\ pc' = "done"
    /\ UNCHANGED <<dataset, cfg, nfiles, ti, days, topo, T0, U0, V0, H0,
                   Tm_prev, Tm_prev_prev, H_prev, we_use, stores, colIn, colOut,
                   fnIn, fnOut, drv>>

Next == TooFewFiles \/ Start \/ Day \/ FluxReadFails \/ Finish

Spec == Init /\ [][Next]_vars


(***************************************************************************)
(* SpecCol: ml_avg_Tb_Tz_sfc on one column.  The depth array, the bottom   *)
(* index, the mixed-layer depth and the temperature column are drawn from  *)
(* the sets below; the velocity columns are U[k] = 2k+1 and V[k] = -k.     *)
(***************************************************************************)
Arr1(s) == Array([k \in 0..Len(s)-1 |-> s[k+1]])

ColDepths == { Arr1(<<I(5), I(15), I(25), I(35)>>),
               Arr1(<<I(1), I(3)>>),
               Arr1(<<I(10), I(20)>>),
               Arr1(<<I(5), I(5), I(10)>>),
               Arr1(<<I(5)>>) }

ColTVals(nz) ==
    IF nz <= 2 THEN {NaN, PInf, I(10), I(15), I(18), I(20)}
               ELSE {NaN, I(10), I(20)}

ColHVals == {NaN, PInf, NInf, I(-5), Zero, Rat(5, 2), I(3), I(5), I(12),
             I(15), I(20), I(27), I(40)}

\* the variables of process_year, and their values while no year is run
yearVars == <<dataset, pc, cfg, nfiles, ti, days, topo, T0, U0, V0, H0,
              Tm_prev, Tm_prev_prev, H_prev, we_use, stores>>

YearIdle ==
    /\ dataset = "coast"
    /\ pc = "idle"
    /\ cfg = None
    /\ nfiles = 0
    /\ ti = 0
    /\ days = <<>>
    /\ topo = None
    /\ T0 = None /\ U0 = None /\ V0 = None /\ H0 = None
    /\ Tm_prev = None /\ Tm_prev_prev = None /\ H_prev = None
    /\ we_use = None
    /\ stores = NoStores

InitCol ==
    /\ \E d \in ColDepths :
       \E t \in [DOMAIN d -> ColTVals(NzOf(d))], kb \in -1..NzOf(d), h \in ColHVals :
          colIn = [depth |-> d, kbot |-> kb, h |-> h, T |-> Array(t),
                   U |-> Array([k \in DOMAIN d |-> I(2 * k + 1)]),
                   V |-> Array([k \in DOMAIN d |-> I(-k)])]
    /\ colOut = None
    /\ fnIn = None /\ fnOut = None /\ drv = None
    /\ YearIdle

\* the call: the six outputs of the column
ApplyCol ==
    /\ pc = "idle"
    /\ colIn # None
    /\ colOut = None
    /\ colOut' = MLColumn(colIn.T, colIn.U, colIn.V, colIn.h, colIn.depth, colIn.kbot)
    /\ UNCHANGED <<colIn, fnIn, fnOut, drv, yearVars>>

NextCol == ApplyCol

SpecCol == InitCol /\ [][NextCol]_vars


(***************************************************************************)
(* SpecEnt: the entrainment speed and ENT of one day (mode, cap on w_e,    *)
(* cap on dT, cooling filter, cap on ENT) as a function of its inputs.     *)
(* Column <<0,0>> is land (every input not-a-number); every other column   *)
(* holds the drawn values.  The caps may be absent, negative, zero,        *)
(* positive or not-a-number.                                               *)
(***************************************************************************)
EntCaps == {None, NaN, I(-1), Zero, I(1)}

EntConfigs ==
    { [we_mode |-> m, ent_only_cooling |-> oc, we_cap_md |-> wc,
       dT_cap |-> dc, ent_cap_kpd |-> ec, use_hbar_denom |-> FALSE,
       ah |-> I(1), kv |-> Half, hmin |-> I(10)] :
      m \in WeModes, oc \in BOOLEAN, wc \in EntCaps, dc \in {None, I(-2)},
      ec \in EntCaps }

\* a 2-D field: not-a-number at the land column, x elsewhere
Field2d(x) == Array([c \in Cells |-> IF c = <<0, 0>> THEN NaN ELSE x])

InitEnt ==
    /\ \E c0 \in EntConfigs :
       \E ht \in {NaN, I(-1), Zero, I(2), PInf}, dv \in {NaN, I(-3), I(1)},
          hd \in {NaN, I(10)}, dT \in {NaN, I(-4), I(1), PInf} :
          fnIn = [fn |-> "ent", cfg |-> c0, ht |-> Field2d(ht), div |-> Field2d(dv),
                  hden |-> Field2d(hd), dT |-> Field2d(dT)]
    /\ fnOut = None
    /\ colIn = None /\ colOut = None /\ drv = None
    /\ YearIdle

\* lines 321-339 of the loop body
ApplyEnt ==
    /\ fnIn # None /\ fnIn.fn = "ent"
    /\ fnOut = None
    /\ \E we \in {WeCapOf(fnIn.cfg, WeModeOf(fnIn.cfg.we_mode, fnIn.ht, fnIn.div))} :
          fnOut' = [we  |-> we,
                    ENT |-> ENTof(fnIn.cfg, we, fnIn.hden, DTeffOf(fnIn.cfg, fnIn.dT))]
    /\ UNCHANGED <<fnIn, colIn, colOut, drv, yearVars>>

NextEnt == ApplyEnt

SpecEnt == InitEnt /\ [][NextEnt]_vars

(***************************************************************************)
(* SpecDdx: one call of ddx_c or ddy_c on a field of any small shape.      *)
(***************************************************************************)
MaxAxis == 4

DdSlopes == {-1, 0, 2}

\* dx_row of a grid of ny rows (dy * cos(lat)), as process_year builds it
DdRow(ny) == Array([j \in 0..ny-1 |-> Mul(I(DY), IF j % 2 = 1 THEN Half ELSE One)])

\* a field a_j + s*x + q*i^2 along the differenced axis, x the distance
\* from the first cell; q = 0 is a linear ramp of slope s; one cell may be
\* missing
DdField(fn, ny, nx, sl, q, hole) ==
    Array([c \in Shape(ny, nx) |->
        IF c = hole THEN NaN
        ELSE IF fn = "ddx"
             THEN Add(I(c[1] + 1 + q * c[2] * c[2]),
                      Mul(I(sl), Mul(I(c[2]), DdRow(ny)[c[1]])))
             ELSE Add(I(c[2] + 1 + q * c[1] * c[1]),
                      Mul(I(sl), Mul(I(c[1]), I(DY))))])

InitDdx ==
    /\ \E fn \in {"ddx", "ddy"}, ny \in 1..MaxAxis, nx \in 1..MaxAxis,
          sl \in DdSlopes, q \in {0, 1}, hole \in {None, <<0, 0>>, <<1, 1>>} :
          fnIn = [fn |-> fn, ny |-> ny, nx |-> nx,
                  field |-> DdField(fn, ny, nx, sl, q, hole),
                  dx_row |-> DdRow(ny), dy |-> I(DY)]
    /\ fnOut = None /\ colIn = None /\ colOut = None /\ drv = None /\ YearIdle

\* the call of ddx_c: out is a fresh array, field is only read
ApplyDdx ==
    /\ fnIn # None /\ fnIn.fn = "ddx" /\ fnOut = None
    /\ fnOut' = [out |-> ddx_c(fnIn.field, fnIn.dx_row, fnIn.ny, fnIn.nx),
                 field |-> fnIn.field]
    /\ UNCHANGED <<fnIn, colIn, colOut, drv, yearVars>>

\* the call of ddy_c
ApplyDdy ==
    /\ fnIn # None /\ fnIn.fn = "ddy" /\ fnOut = None
    /\ fnOut' = [out |-> ddy_c(fnIn.field, fnIn.dy, fnIn.ny, fnIn.nx),
                 field |-> fnIn.field]
    /\ UNCHANGED <<fnIn, colIn, colOut, drv, yearVars>>

NextDdx == ApplyDdx \/ ApplyDdy

SpecDdx == InitDdx /\ [][NextDdx]_vars

(***************************************************************************)
(* SpecPair: two calls of ml_avg_Tb_Tz_sfc on grids that differ in some    *)
(* columns only.                                                           *)
(***************************************************************************)
PairKinds == {"land", "shallow", "missing", "nodepth", "warm"}

\* the day-state of file pattern p of dataset ds, as process_year passes it
GridOf(ds, p) ==
    [T |-> FileT(ds, p), U |-> FileU(ds, p), V |-> FileV(ds, p), H |-> FileH(ds, p),
     topo |-> TopoOf(FileT(ds, p))]

\* grid g with the columns of chg made land, left with one valid level,
\* all-missing, without a mixed-layer depth, or warmer and faster
Vary(g, chg, kind) ==
    [T |-> Array([k \in Lv |-> Array([c \in Cells |->
                IF c \notin chg THEN g.T[k][c]
                ELSE IF kind \in {"land", "missing"} THEN NaN
                ELSE IF kind = "warm" THEN Add(g.T[k][c], I(5))
                ELSE g.T[k][c]])]),
     U |-> Array([k \in Lv |-> Array([c \in Cells |->
                IF c \notin chg THEN g.U[k][c]
                ELSE IF kind \in {"land", "missing"} THEN NaN
                ELSE IF kind = "warm" THEN Add(g.U[k][c], I(1))
                ELSE g.U[k][c]])]),
     V |-> Array([k \in Lv |-> Array([c \in Cells |->
                IF c \notin chg THEN g.V[k][c]
                ELSE IF kind \in {"land", "missing"} THEN NaN
                ELSE g.V[k][c]])]),
     H |-> Array([c \in Cells |->
                IF c \notin chg THEN g.H[c]
                ELSE IF kind = "land" THEN NaN
                ELSE IF kind = "nodepth" THEN Zero
                ELSE IF kind = "warm" THEN Add(g.H[c], I(7))
                ELSE g.H[c]]),
     topo |-> Array([c \in Cells |->
                IF c \notin chg THEN g.topo[c]
                ELSE IF kind = "land" THEN 0
                ELSE IF kind = "shallow" THEN 1
                ELSE g.topo[c]])]

InitPair ==
    /\ \E ds \in Datasets, p \in Patterns, at \in Cells, rest \in BOOLEAN, kind \in PairKinds :
          \E chg \in {IF rest THEN Cells \ {at} ELSE {at}} :
             fnIn = [fn |-> "pair", chg |-> chg, kind |-> kind,
                     a |-> GridOf(ds, p), b |-> Vary(GridOf(ds, p), chg, kind)]
    /\ fnOut = None /\ colIn = None /\ colOut = None /\ drv = None /\ YearIdle

\* the two calls
ApplyPair ==
    /\ fnIn # None /\ fnIn.fn = "pair" /\ fnOut = None
    /\ fnOut' = [a |-> ml_avg_Tb_Tz_sfc(fnIn.a.T, fnIn.a.U, fnIn.a.V, fnIn.a.H,
                                        GridDepth, fnIn.a.topo),
                 b |-> ml_avg_Tb_Tz_sfc(fnIn.b.T, fnIn.b.U, fnIn.b.V, fnIn.b.H,
                                        GridDepth, fnIn.b.topo)]
    /\ UNCHANGED <<fnIn, colIn, colOut, drv, yearVars>>

NextPair == ApplyPair

SpecPair == InitPair /\ [][NextPair]_vars

(***************************************************************************)
(* SpecMain: main, the driver over the requested years.  A year is its     *)
(* position in the list; process_year of a year with fewer than three      *)
(* files raises (TooFewFiles), of any other year completes.                *)
(***************************************************************************)
MaxYears   == 3
MaxWorkers == 2

\* the --years argument: "a:b" or "x,y,..."
YearArgs ==
    { [kind |-> "range", a |-> a, b |-> b, items |-> <<>>] : a \in 1..MaxYears, b \in 1..MaxYears }
    \cup
    { [kind |-> "list", a |-> 0, b |-> 0, items |-> l] :
        l \in UNION { [1..n -> 1..2] : n \in 1..MaxYears } }

\* ":" in s: list(range(int(a), int(b)+1)); else the integers between commas
parse_years(s) ==
    IF s.kind = "range"
    THEN [i \in 1..(IF s.b >= s.a THEN s.b - s.a + 1 ELSE 0) |-> s.a + i - 1]
    ELSE s.items

\* the calls of process_year main makes, one per entry of years, named by
\* their position in the list; and those that raise
YearsOf(d)   == 1..d.nyears
RaisesIn(d, y) == d.nfiles[d.years[y]] < 3

\* the branch test of main: n_workers == 1 or len(years) == 1
Sequential(d) == d.n_workers = 1 \/ d.nyears = 1

InitMain ==
    /\ \E arg \in YearArgs, w \in 1..MaxWorkers :
       \E nf \in [1..MaxYears -> {2, 3}] :
          drv = [years |-> parse_years(arg), nyears |-> Len(parse_years(arg)),
                 n_workers |-> w,
                 nfiles |-> nf,        \* the number of daily files of each year
                 pc |-> "branch",
                 y |-> 1,              \* the loop variable of the sequential branch
                 pending |-> {},       \* submitted, not yet taken by a worker
                 running |-> {},       \* in a worker process
                 finished |-> {},      \* futures that hold a result or an exception
                 collected |-> {},     \* futures as_completed has yielded
                 done |-> {},          \* calls of process_year that completed
                 reported |-> {}]      \* calls printed as "[ERR] year y: ..."
    /\ fnIn = None /\ fnOut = None /\ colIn = None /\ colOut = None /\ YearIdle

MainRest == <<fnIn, fnOut, colIn, colOut, yearVars>>

\* if n_workers == 1 or len(years) == 1: ... else: submit every year
Branch ==
    /\ drv # None /\ drv.pc = "branch"
    /\ drv' = IF Sequential(drv)
              THEN [drv EXCEPT !.pc = "seq"]
              ELSE [drv EXCEPT !.pc = "par", !.pending = YearsOf(drv)]
    /\ UNCHANGED MainRest

\* for y in years: process_year(...) returns
SeqYearDone ==
    /\ drv # None /\ drv.pc = "seq" /\ drv.y <= drv.nyears
    /\ ~RaisesIn(drv, drv.y)
    /\ drv' = [drv EXCEPT !.done = @ \cup {drv.y}, !.y = @ + 1]
    /\ UNCHANGED MainRest

\* for y in years: process_year(...) raises; nothing catches it and main
\* ends with the traceback of the exception
SeqYearRaises ==
    /\ drv # None /\ drv.pc = "seq" /\ drv.y <= drv.nyears
    /\ RaisesIn(drv, drv.y)
    /\ drv' = [drv EXCEPT !.pc = "crashed"]
    /\ UNCHANGED MainRest

\* the sequential loop is exhausted
SeqEnd ==
    /\ drv # None /\ drv.pc = "seq" /\ drv.y > drv.nyears
    /\ drv' = [drv EXCEPT !.pc = "exit"]
    /\ UNCHANGED MainRest

\* a free worker of the pool takes a submitted year
WorkerTakes ==
    /\ drv # None /\ drv.pc = "par"
    /\ Cardinality(drv.running) < drv.n_workers
    /\ \E y \in drv.pending :
          drv' = [drv EXCEPT !.pending = @ \ {y}, !.running = @ \cup {y}]
    /\ UNCHANGED MainRest

\* process_year ends in a worker: its future holds the result or the exception
WorkerEnds ==
    /\ drv # None /\ drv.pc = "par"
    /\ \E y \in drv.running :
          drv' = [drv EXCEPT !.running = @ \ {y}, !.finished = @ \cup {y},
                             !.done = IF RaisesIn(drv, y) THEN @ ELSE @ \cup {y}]
    /\ UNCHANGED MainRest

\* for fut in as_completed(futs): try: fut.result() except Exception: print
Collect ==
    /\ drv # None /\ drv.pc = "par"
    /\ \E y \in drv.finished \ drv.collected :
          drv' = [drv EXCEPT !.collected = @ \cup {y},
                             !.reported = IF RaisesIn(drv, y) THEN @ \cup {y} ELSE @]
    /\ UNCHANGED MainRest

\* every future has been yielded; the pool shuts down
ParEnd ==
    /\ drv # None /\ drv.pc = "par"
    /\ drv.collected = YearsOf(drv)
    /\ drv' = [drv EXCEPT !.pc = "exit"]
    /\ UNCHANGED MainRest

NextMain == Branch \/ SeqYearDone \/ SeqYearRaises \/ SeqEnd
            \/ WorkerTakes \/ WorkerEnds \/ Collect \/ ParEnd

SpecMain == InitMain /\ [][NextMain]_vars

(***************************************************************************)
(* SpecTopo: the topography of a year, from a first day whose columns may  *)
(* have a missing level above a finite one, and the days that follow.      *)
(***************************************************************************)
ColumnKinds == <<"full", "land", "shallow", "gap", "topgap", "infinite">>

\* the temperature of level k of a column of the given kind
KindT(kind, k, v) ==
    IF kind = "land" THEN NaN
    ELSE IF kind = "shallow" /\ k >= 2 THEN NaN
    ELSE IF kind = "gap" /\ k = 1 THEN NaN
    ELSE IF kind = "topgap" /\ k = 0 THEN NaN
    ELSE IF kind = "infinite" /\ k = 1 THEN PInf
    ELSE I(20 + v - 2 * k)

\* a day whose cell number n (row by row) is of kind number (n + r) mod 6
TopoDay(r, v) ==
    Array([k \in Lv |-> Array([c \in Cells |->
        KindT(ColumnKinds[((c[1] * Nx + c[2] + r) % Len(ColumnKinds)) + 1], k, v)])])

InitTopo ==
    /\ \E r \in 0..(Len(ColumnKinds) - 1), v \in 1..3 :
          fnIn = [fn |-> "topo", first |-> TopoDay(r, v), T |-> TopoDay(r, v)]
    /\ fnOut = None /\ colIn = None /\ colOut = None /\ drv = None /\ YearIdle

\* topo: first missing level index, from the first day's temperature
ComputeTopo ==
    /\ fnIn # None /\ fnIn.fn = "topo" /\ fnOut = None
    /\ fnOut' = [topo |-> TopoOf(fnIn.T)]
    /\ UNCHANGED <<fnIn, colIn, colOut, drv, yearVars>>

\* an iteration of the daily loop: the buffers take the next file, topo is
\* only read
TopoLaterDay ==
    /\ fnIn # None /\ fnIn.fn = "topo" /\ fnOut # None
    /\ \E r \in 0..(Len(ColumnKinds) - 1), v \in 1..3 :
          fnIn' = [fnIn EXCEPT !.T = TopoDay(r, v)]
    /\ UNCHANGED <<fnOut, colIn, colOut, drv, yearVars>>

NextTopo == ComputeTopo \/ TopoLaterDay

SpecTopo == InitTopo /\ [][NextTopo]_vars


(***************************************************************************)
(* Reading the run back.  The record appended by loop index ti is the      *)
(* record of day ti-1 (0-based); it is record number ti of every store.    *)
(* days[d+1] is the pattern held by the file of day d.                     *)
(***************************************************************************)
NRec == Len(stores["TML"])

Running == pc \in {"loop", "done"}

DayFile(d) == FileOf(dataset, days[d + 1])

\* the mixed-layer mean of day d from day d's own fields and depth
TmOfDay(d) ==
    LET b  == DayFile(d)
        ml == ml_avg_Tb_Tz_sfc(b.T, b.U, b.V, b.H, GridDepth, topo)
    IN  Array([c \in Cells |-> ml[c].Tm])

\* the columns of day d the vertical diagnostics process with every valid
\* level finite: ocean, finite positive depth
ValidCols(d) ==
    LET T == FileT(dataset, days[d + 1])
        H == FileH(dataset, days[d + 1])
    IN  {c \in Cells : /\ topo[c] >= 1
                       /\ isfinite(H[c]) /\ Gt(H[c], Zero)
                       /\ \A k \in 0..(topo[c] - 1) : isfinite(T[k][c])}

(***************************************************************************)
(* C1.  For every emitted day t with a previous and a next day, the        *)
(* centered tendency written for day t is (Tm[t+1] - Tm[t-1]) / (2*DT),    *)
(* Tm[d] being the mixed-layer mean of day d's own fields and depth.       *)
(* Day t is record t+1; it has a previous day when t >= 1.  The statement  *)
(* is the claim as made; the run violates it.                              *)
(***************************************************************************)
C1_CenteredTwoDaysApart ==
    Running =>
        \A r \in 2..NRec :
            \E nxt \in {TmOfDay(r)} : \E prv \in {TmOfDay(r - 2)} :
                \A c \in Cells :
                    stores["TEN_C"][r][c] = Div(Sub(nxt[c], prv[c]), I(2 * DT))

(***************************************************************************)
(* C2.  A year of exactly three daily inputs with the same mixed-layer     *)
(* mean on all three days at every valid column ends with at least one     *)
(* record whose forward tendency is 0 and at least one record whose        *)
(* centered tendency is 0 there.  The statement is the claim as made; the  *)
(* run violates it.                                                        *)
(***************************************************************************)
C2_ThreeDayRoundTrip ==
    (pc = "done" /\ nfiles = 3) =>
        \E m0 \in {TmOfDay(0)} : \E m1 \in {TmOfDay(1)} : \E m2 \in {TmOfDay(2)} :
            LET valid == {c \in Cells : isfinite(m0[c])}
            IN  (valid # {} /\ \A c \in valid : m1[c] = m0[c] /\ m2[c] = m0[c]) =>
                    /\ \E r \in 1..NRec : \A c \in valid : stores["TEN_F"][r][c] = Zero
                    /\ \E r \in 1..NRec : \A c \in valid : stores["TEN_C"][r][c] = Zero


(***************************************************************************)
(* Reading one column back (SpecCol).                                      *)
(***************************************************************************)
Called == colOut # None

Depth4 == Arr1(<<I(5), I(15), I(25), I(35)>>)

\* strictly increasing positive level depths
IncreasingDepths(depth) ==
    /\ Gt(depth[0], Zero)
    /\ \A k \in 1..(NzOf(depth) - 1) : Gt(depth[k], depth[k-1])

\* bottom_index >= 1, finite h > 0, strictly increasing positive depths
ValidColumn(col) ==
    /\ col.kbot >= 1
    /\ isfinite(col.h) /\ Gt(col.h, Zero)
    /\ IncreasingDepths(col.depth)

\* the weight the overlap loop gives level k: the sum it accumulates for a
\* column that is 1 at level k and 0 elsewhere
LevelWeight(col, k) ==
    OverlapSum(Array([l \in DOMAIN col.depth |-> IF l = k THEN One ELSE Zero]),
               zhalfOf(col.depth), ClipH(col.h, col.depth, col.kbot), col.kbot, 0, Zero)

\* the sum of all weights: the loop's sum for a column of ones
WeightSum(col) ==
    OverlapSum(Array([l \in DOMAIN col.depth |-> One]),
               zhalfOf(col.depth), ClipH(col.h, col.depth, col.kbot), col.kbot, 0, Zero)

\* sum over the levels of X[k] * wt[k] / h
WeightedMean4(X, wt, h) ==
    Div(Add(Add(Add(Mul(I(wt[1]), X[0]), Mul(I(wt[2]), X[1])),
                Mul(I(wt[3]), X[2])), Mul(I(wt[4]), X[3])), h)

(***************************************************************************)
(* C3 (as made).  For a column with all four levels valid at depths        *)
(* [5,15,25,35] and h = 20 the level weights are [5,10,5,0]:               *)
(* Tm = (5*T[0] + 10*T[1] + 5*T[2] + 0*T[3]) / 20, and so for Um, Vm.      *)
(* The call violates it.                                                   *)
(***************************************************************************)
C3_Weights_5_10_5_0 ==
    (/\ Called /\ colIn.depth = Depth4 /\ colIn.kbot = 4 /\ colIn.h = I(20)
     /\ \A k \in 0..3 : isfinite(colIn.T[k]))
    => /\ colOut.Tm = WeightedMean4(colIn.T, <<5, 10, 5, 0>>, I(20))
       /\ colOut.Um = WeightedMean4(colIn.U, <<5, 10, 5, 0>>, I(20))
       /\ colOut.Vm = WeightedMean4(colIn.V, <<5, 10, 5, 0>>, I(20))

(***************************************************************************)
(* C3 (amended).  For a column with all four levels valid at depths        *)
(* [5,15,25,35] and h = 20 the half-level boundaries are [0,10,20,30,40],  *)
(* the level weights are [10,10,0,0] and Tm = (10*T[0] + 10*T[1]) / 20;    *)
(* the same weights give Um and Vm.                                        *)
(***************************************************************************)
C3_Weights_10_10_0_0 ==
    (/\ Called /\ colIn.depth = Depth4 /\ colIn.kbot = 4 /\ colIn.h = I(20)
     /\ \A k \in 0..3 : isfinite(colIn.T[k]))
    => /\ \A k \in 0..3 : LevelWeight(colIn, k) = I(<<10, 10, 0, 0>>[k + 1])
       /\ colOut.Tm = Div(Add(Mul(I(10), colIn.T[0]), Mul(I(10), colIn.T[1])), I(20))
       /\ colOut.Um = Div(Add(Mul(I(10), colIn.U[0]), Mul(I(10), colIn.U[1])), I(20))
       /\ colOut.Vm = Div(Add(Mul(I(10), colIn.V[0]), Mul(I(10), colIn.V[1])), I(20))

\* the call was made on that column with three different level temperatures
C3_Witness ==
    /\ Called /\ colIn.depth = Depth4 /\ colIn.kbot = 4 /\ colIn.h = I(20)
    /\ colIn.T[0] = I(10) /\ colIn.T[1] = I(20) /\ colIn.T[2] = I(10) /\ colIn.T[3] = I(20)
    /\ colOut.Tm = I(15)

(***************************************************************************)
(* C4.  For every valid column (bottom_index >= 1, finite h > 0, strictly  *)
(* increasing positive depths) the weights the overlap loop accumulates    *)
(* over levels 0..bottom_index-1 are the non-negative overlaps             *)
(* min(h, zhalf[k+1]) - zhalf[k] (0 where there is no overlap), they sum   *)
(* exactly to the clipped h, and a vertically uniform column T[k] = c      *)
(* yields Tm = c.                                                          *)
(***************************************************************************)
C4_OverlapPartition ==
    (Called /\ ValidColumn(colIn)) =>
        LET zh == zhalfOf(colIn.depth)
            h  == ClipH(colIn.h, colIn.depth, colIn.kbot)
        IN  /\ \A k \in 0..(colIn.kbot - 1) :
                 /\ Ge(LevelWeight(colIn, k), Zero)
                 /\ LevelWeight(colIn, k)
                        = npmaximum(Zero, Sub(pymin(h, zh[k + 1]), zh[k]))
            /\ WeightSum(colIn) = h
            /\ \A c \in {I(10), I(15), I(18), I(20)} :
                 (\A k \in 0..(colIn.kbot - 1) : colIn.T[k] = c) => colOut.Tm = c

\* a uniform column whose h falls inside the second level
C4_Witness ==
    /\ Called /\ ValidColumn(colIn)
    /\ colIn.depth = Depth4 /\ colIn.kbot = 4 /\ colIn.h = I(12)
    /\ \A k \in 0..3 : colIn.T[k] = I(20)
    /\ colOut.Tm = I(20)
    /\ LevelWeight(colIn, 1) = I(2)

(***************************************************************************)
(* C5.  For every column with bottom_index <= 0, or with a non-finite or   *)
(* non-positive mixed-layer depth h, all six outputs (Tm, Um, Vm, Tb,      *)
(* Tz_h, T0) are not-a-number, whatever the column holds.                  *)
(***************************************************************************)
C5_SkippedColumnAllNaN ==
    (Called /\ (colIn.kbot <= 0 \/ ~isfinite(colIn.h) \/ Le(colIn.h, Zero)))
    => /\ isnan(colOut.Tm) /\ isnan(colOut.Um) /\ isnan(colOut.Vm)
       /\ isnan(colOut.Tb) /\ isnan(colOut.TzH) /\ isnan(colOut.T0)

\* an ocean column of finite temperatures with h = 0 came back all not-a-number
C5_Witness ==
    /\ Called /\ colIn.kbot >= 2 /\ colIn.h = Zero
    /\ \A k \in DOMAIN colIn.T : isfinite(colIn.T[k])
    /\ colOut = AllNaN


(***************************************************************************)
(* Reading the budget records back.                                        *)
(***************************************************************************)
BudgetFields == {"QNET", "ADV", "ENT", "DIFF", "DIFFV", "TEN_F", "TEN_C", "CLOSF", "CLOSC"}

\* land: bottom index 0 and every input read for record r not-a-number there
LandColumn(r, c) ==
    /\ topo[c] = 0
    /\ \E b0 \in {DayFile(r - 1)} :
         /\ isnan(b0.H[c])
         /\ \A k \in Lv : isnan(b0.T[k][c]) /\ isnan(b0.U[k][c]) /\ isnan(b0.V[k][c])
    /\ isnan(FileH(dataset, days[r + 1])[c])
    /\ \E q \in {FluxRec(dataset, days[r + 1])[c]} :
         isnan(q.sw) /\ isnan(q.lw) /\ isnan(q.lhf) /\ isnan(q.shf)

(***************************************************************************)
(* C6.  On every emitted day and under every configuration each budget     *)
(* field (QNET, ADV, ENT, DIFF, DIFFV, both tendencies, both residuals)    *)
(* is not-a-number at every land column; in particular ENT is not 0        *)
(* there.  The statement is the claim as made; the run violates it.        *)
(***************************************************************************)
C6_LandIsNaNInBudget ==
    Running =>
        \A r \in 1..NRec : \A c \in Cells :
            LandColumn(r, c) => \A f \in BudgetFields : isnan(stores[f][r][c])

\* h of day d
HOfDay(d) == FileH(dataset, days[d + 1])

(***************************************************************************)
(* C7.  With we_mode = 'centered' (and no cap on w_e) the entrainment      *)
(* velocity used for ENT on day t is (h[t+1] - h[t-1]) / (2*DT) when the   *)
(* previous day's depth is in the window, else (h[t+1] - h[t]) / DT; the   *)
(* horizontal divergence of h*(Um,Vm) is not added.  Day t is record t+1.  *)
(* The statement is the claim as made; the run violates it.                *)
(***************************************************************************)
C7_CenteredWithoutDivergence ==
    (Running /\ NRec >= 1 /\ cfg.we_mode = "centered" /\ cfg.we_cap_md = None) =>
        \E hn \in {HOfDay(NRec)} : \E hc \in {HOfDay(NRec - 1)} :
            \A c \in Cells :
                we_use[c] = IF NRec >= 2
                            THEN Div(Sub(hn[c], HOfDay(NRec - 2)[c]), I(2 * DT))
                            ELSE Div(Sub(hn[c], hc[c]), I(DT))


(***************************************************************************)
(* The Daily Sequencer's state, read off the rolling window.               *)
(***************************************************************************)
SeqRank == IF Tm_prev = None THEN 0          \* COLD_START
           ELSE IF Tm_prev_prev = None THEN 1  \* WARM_1
           ELSE 2                              \* WARM_2

Min2(n) == IF n < 2 THEN n ELSE 2

AllMissing(f, r) == \A c \in Cells : isnan(stores[f][r][c])

(***************************************************************************)
(* C8.  The sequencer goes COLD_START -> WARM_1 -> WARM_2, one transition  *)
(* per processed day and never back: after n processed days it is in      *)
(* state min(n, 2).  The first record holds the missing sentinel in both   *)
(* tendencies and both residuals; the second record holds a forward        *)
(* tendency that is defined at valid columns (and a missing centered       *)
(* tendency); every later record holds a forward and a centered tendency   *)
(* that are defined at valid columns.  A column is valid for a record when *)
(* it is an ocean column with a finite positive depth and finite levels on *)
(* each day the record's differences read.                                 *)
(***************************************************************************)
C8_Sequencer ==
    Running =>
        LET valid == Array([d \in 0..NRec |-> ValidCols(d)])
        IN  /\ SeqRank = Min2(NRec)
            /\ ti = NRec + 1
            /\ \A r \in 1..NRec :
                /\ r = 1 => /\ AllMissing("TEN_F", 1) /\ AllMissing("TEN_C", 1)
                            /\ AllMissing("CLOSF", 1) /\ AllMissing("CLOSC", 1)
                /\ r = 2 => AllMissing("TEN_C", 2) /\ AllMissing("CLOSC", 2)
                /\ r >= 2 => \A c \in valid[r - 2] \cap valid[r - 1] :
                                 isfinite(stores["TEN_F"][r][c])
                /\ r >= 3 => \A c \in valid[r - 3] \cap valid[r - 2]
                                          \cap valid[r - 1] \cap valid[r] :
                                 isfinite(stores["TEN_C"][r][c])

\* four days processed: the third and fourth records carry both tendencies
C8_Witness ==
    /\ Running /\ NRec = 4 /\ SeqRank = 2
    /\ \E c \in Cells :
         /\ \A d \in 0..4 : c \in ValidCols(d)
         /\ isfinite(stores["TEN_C"][3][c]) /\ stores["TEN_C"][3][c] # Zero
         /\ isfinite(stores["TEN_F"][4][c]) /\ stores["TEN_F"][4][c] # Zero
         /\ isnan(stores["TEN_C"][2][c]) /\ isfinite(stores["TEN_F"][2][c])

(***************************************************************************)
(* C9.  Once a previous day is available the forward tendency written for  *)
(* day t is (Tm[t] - Tm[t-1]) / DT, Tm[t-1] being the mixed-layer mean     *)
(* emitted for the preceding day; the first record holds the missing       *)
(* sentinel, and no error is raised for it: the only errors are raised     *)
(* before any day is read, for fewer than three files, and by a short read *)
(* of a flux record, before the tendencies of that iteration are formed.   *)
(***************************************************************************)
C9_ForwardTendency ==
    /\ Running =>
         \A r \in 1..NRec : \A c \in Cells :
            stores["TEN_F"][r][c] =
                IF r = 1 THEN NaN
                ELSE Div(Sub(stores["TML"][r][c], stores["TML"][r - 1][c]), I(DT))
    /\ pc = "failed" => IF nfiles < 3 THEN days = <<>>
                        ELSE Len(stores["TEN_F"]) = ti - 1
    /\ pc = "done" => NRec = nfiles - 1

\* a second record with a non-zero forward tendency after a first all missing
C9_Witness ==
    /\ Running /\ NRec >= 2
    /\ AllMissing("TEN_F", 1)
    /\ \E c \in Cells :
         isfinite(stores["TEN_F"][2][c]) /\ stores["TEN_F"][2][c] # Zero

\* the sum of the five terms of record r at column c
SumRHS(r, c) ==
    Add(Add(Add(Add(stores["QNET"][r][c], stores["ADV"][r][c]), stores["ENT"][r][c]),
            stores["DIFF"][r][c]), stores["DIFFV"][r][c])

(***************************************************************************)
(* C10.  In every record the forward residual is TEN_forward - (QNET +     *)
(* ADV + ENT + DIFF + DIFFV) and the centered residual is TEN_centered -   *)
(* the same sum, from the record's own five terms; a missing tendency      *)
(* gives a missing residual, and the run goes on to the next day: it ends  *)
(* with one record per day after the first.                                *)
(***************************************************************************)
C10_ClosureResiduals ==
    Running =>
        /\ \A r \in 1..NRec : \A c \in Cells :
            /\ stores["CLOSF"][r][c] = Sub(stores["TEN_F"][r][c], SumRHS(r, c))
            /\ stores["CLOSC"][r][c] = Sub(stores["TEN_C"][r][c], SumRHS(r, c))
            /\ isnan(stores["TEN_F"][r][c]) => isnan(stores["CLOSF"][r][c])
            /\ isnan(stores["TEN_C"][r][c]) => isnan(stores["CLOSC"][r][c])
        /\ NRec = ti - 1
        /\ pc = "done" => NRec = nfiles - 1

\* a finite non-zero forward residual next to a missing centered one, and a
\* later record with both residuals finite
C10_Witness ==
    /\ pc = "done" /\ NRec >= 3
    /\ \E c \in Cells :
         /\ isfinite(stores["CLOSF"][2][c]) /\ stores["CLOSF"][2][c] # Zero
         /\ isnan(stores["CLOSC"][2][c])
         /\ isfinite(stores["CLOSC"][3][c]) /\ stores["CLOSC"][3][c] # Zero
         /\ isfinite(SumRHS(3, c)) /\ stores["DIFFV"][3][c] # Zero


(***************************************************************************)
(* Reading the entrainment call back (SpecEnt).                            *)
(***************************************************************************)
EntCalled == fnIn # None /\ fnIn.fn = "ent" /\ fnOut # None

\* cap = we_cap_md / 86400
WeCapValue == Div(fnIn.cfg.we_cap_md, I(DAY_S))

(***************************************************************************)
(* C11.  With ent_only_cooling = True no element of ENT is positive, for   *)
(* every mode, every cap and every input, missing values included; and     *)
(* unless the cap on ENT is itself not-a-number every element satisfies    *)
(* ENT <= 0 (none is not-a-number).                                        *)
(***************************************************************************)
C11_EntNeverPositive ==
    (EntCalled /\ fnIn.cfg.ent_only_cooling) =>
        \A c \in Cells :
            /\ ~Gt(fnOut.ENT[c], Zero)
            /\ (fnIn.cfg.ent_cap_kpd = None \/ ~isnan(fnIn.cfg.ent_cap_kpd))
                   => Le(fnOut.ENT[c], Zero)

\* a warming entrainment (w_e < 0 with Tm > Tb) was zeroed, and a cooling
\* one of another call would pass: here the raw value is positive
C11_Witness ==
    /\ EntCalled /\ fnIn.cfg.ent_only_cooling /\ fnIn.cfg.ent_cap_kpd = None
    /\ fnIn.cfg.we_mode = "dhdt" /\ fnIn.cfg.we_cap_md = None /\ fnIn.cfg.dT_cap = None
    /\ fnIn.ht[<<1, 1>>] = I(-1) /\ fnIn.dT[<<1, 1>>] = I(1) /\ fnIn.hden[<<1, 1>>] = I(10)
    /\ fnOut.ENT[<<1, 1>>] = Zero
    /\ fnOut.ENT[<<0, 0>>] = Zero

(***************************************************************************)
(* C12.  For any configured we_cap_md, zero and negative values included,  *)
(* the capped entrainment velocity satisfies |w_e| <= cap with             *)
(* cap = we_cap_md / 86400 wherever w_e is defined, under each of the four *)
(* modes.  np.clip(we, -cap, cap) with a negative cap has its lower bound  *)
(* above its upper one and returns cap everywhere, so |w_e| = |cap| > cap. *)
(***************************************************************************)
C12_WeWithinCap ==
    (EntCalled /\ fnIn.cfg.we_cap_md # None) =>
        \A c \in Cells :
            ~isnan(fnOut.we[c]) => Le(absval(fnOut.we[c]), WeCapValue)

(***************************************************************************)
(* Reading a derivative call back (SpecDdx).                               *)
(***************************************************************************)
DdCalled == fnIn # None /\ fnIn.fn \in {"ddx", "ddy"} /\ fnOut # None

\* along the differenced axis: the index of cell c, the number of cells,
\* the neighbour of c at offset k, and the spacing at c
DdAxisIdx(c) == IF fnIn.fn = "ddx" THEN c[2] ELSE c[1]
DdAxisLen    == IF fnIn.fn = "ddx" THEN fnIn.nx ELSE fnIn.ny
DdShift(c, k) == IF fnIn.fn = "ddx" THEN <<c[1], c[2] + k>> ELSE <<c[1] + k, c[2]>>
DdSpacing(c) == IF fnIn.fn = "ddx" THEN fnIn.dx_row[c[1]] ELSE fnIn.dy
DdInterior(c) == DdAxisIdx(c) >= 1 /\ DdAxisIdx(c) <= DdAxisLen - 2

\* the field is finite and grows by sl per unit of distance along the axis
DdIsRamp(sl) ==
    \A c \in Shape(fnIn.ny, fnIn.nx) :
        /\ isfinite(fnIn.field[c])
        /\ fnIn.field[c] = Add(fnIn.field[DdShift(c, -DdAxisIdx(c))],
                               Mul(I(sl), Mul(I(DdAxisIdx(c)), DdSpacing(c))))

(***************************************************************************)
(* C13.  ddx_c and ddy_c return not-a-number at the first and last index   *)
(* along the differenced axis (everywhere when the axis has fewer than     *)
(* three cells), at every interior cell (field[+1] - field[-1]) /          *)
(* (2*spacing) with spacing dx_row[j] for ddx_c and dy for ddy_c, hence    *)
(* exactly the slope on a linear ramp; the result has the shape of the     *)
(* field and the field is left as it was.                                  *)
(***************************************************************************)
C13_CenteredDifferences ==
    DdCalled =>
        /\ DOMAIN fnOut.out = Shape(fnIn.ny, fnIn.nx)
        /\ \A c \in Shape(fnIn.ny, fnIn.nx) :
              IF DdInterior(c)
              THEN fnOut.out[c] = Div(Sub(fnIn.field[DdShift(c, 1)], fnIn.field[DdShift(c, -1)]),
                                      Mul(I(2), DdSpacing(c)))
              ELSE isnan(fnOut.out[c])
        /\ DdAxisLen < 3 => \A c \in Shape(fnIn.ny, fnIn.nx) : isnan(fnOut.out[c])
        /\ \A sl \in DdSlopes :
              DdIsRamp(sl) => \A c \in Shape(fnIn.ny, fnIn.nx) :
                                 DdInterior(c) => fnOut.out[c] = I(sl)
        /\ fnOut.field = fnIn.field

\* ddx_c on a 3 x 4 ramp of slope 2: both interior columns give 2, both
\* edge columns are missing
C13_Witness ==
    /\ DdCalled /\ fnIn.fn = "ddx" /\ fnIn.ny = 3 /\ fnIn.nx = 4
    /\ DdIsRamp(2)
    /\ fnOut.out[<<1, 1>>] = I(2) /\ fnOut.out[<<1, 2>>] = I(2)
    /\ isnan(fnOut.out[<<1, 0>>]) /\ isnan(fnOut.out[<<1, 3>>])

(***************************************************************************)
(* Reading the boundary and surface outputs of a column back (SpecCol).    *)
(***************************************************************************)
\* a column the loop does not skip: ocean, with a finite positive h
Processed(col) == col.kbot >= 1 /\ isfinite(col.h) /\ Gt(col.h, Zero)

\* h after step 1: not deeper than the deepest valid centre
HClipped(col) == npminimum(col.h, col.depth[col.kbot - 1])

\* the located pair: the largest index of the valid column with
\* depth[pos] <= h, clamped into [0, bottom_index - 2]
LocatedPos(col) ==
    LET ks == {k \in 0..(col.kbot - 1) : Le(col.depth[k], HClipped(col))}
        p  == IF ks = {} THEN 0 ELSE CHOOSE k \in ks : \A l \in ks : l <= k
    IN  IF p > col.kbot - 2 THEN col.kbot - 2 ELSE p

(***************************************************************************)
(* C14.  For a column that is not skipped, T0 = T[0] - m*depth[0] with     *)
(* m = (T[1] - T[0]) / (depth[1] - depth[0]) when bottom_index >= 2, T[0]  *)
(* and T[1] are finite and depth[1] > depth[0] (depths 1,3 with            *)
(* temperatures 20,18 give 21); in every other case T0 = T[0]; and T0 is   *)
(* not-a-number only when T[0] is not finite.                              *)
(***************************************************************************)
C14_SurfaceExtrapolation ==
    (Called /\ Processed(colIn)) =>
        /\ IF /\ colIn.kbot >= 2
              /\ isfinite(colIn.T[0]) /\ isfinite(colIn.T[1])
              /\ Gt(colIn.depth[1], colIn.depth[0])
           THEN colOut.T0 = Sub(colIn.T[0],
                                Mul(Div(Sub(colIn.T[1], colIn.T[0]),
                                        Sub(colIn.depth[1], colIn.depth[0])),
                                    colIn.depth[0]))
           ELSE colOut.T0 = colIn.T[0]
        /\ isnan(colOut.T0) => ~isfinite(colIn.T[0])
        /\ ( /\ colIn.depth = Arr1(<<I(1), I(3)>>) /\ colIn.kbot = 2
             /\ colIn.T[0] = I(20) /\ colIn.T[1] = I(18) ) => colOut.T0 = I(21)

\* the worked example
C14_Witness ==
    /\ Called /\ Processed(colIn)
    /\ colIn.depth = Arr1(<<I(1), I(3)>>) /\ colIn.kbot = 2
    /\ colIn.T[0] = I(20) /\ colIn.T[1] = I(18)
    /\ colOut.T0 = I(21)

(***************************************************************************)
(* C15.  For a column that is not skipped, has at least two valid levels   *)
(* and whose located pair (pos, pos+1) is finite with                      *)
(* depth[pos+1] > depth[pos]:                                              *)
(* Tb = T[pos] + (h - depth[pos]) / (depth[pos+1] - depth[pos])            *)
(*             * (T[pos+1] - T[pos])                                       *)
(* and Tz_h = (T[pos+1] - T[pos]) / (depth[pos+1] - depth[pos]), h being   *)
(* the clipped depth; depths 10,20 with temperatures 15,10 and h = 15 give *)
(* Tb = 12.5 and Tz_h = -0.5.                                              *)
(***************************************************************************)
C15_BoundaryInterpolation ==
    (Called /\ Processed(colIn) /\ colIn.kbot >= 2) =>
        LET pos == LocatedPos(colIn)
            zlo == colIn.depth[pos]
            zhi == colIn.depth[pos + 1]
            Tlo == colIn.T[pos]
            Thi == colIn.T[pos + 1]
        IN  /\ (isfinite(Tlo) /\ isfinite(Thi) /\ Gt(zhi, zlo)) =>
                  /\ colOut.Tb = Add(Tlo, Mul(Div(Sub(HClipped(colIn), zlo), Sub(zhi, zlo)),
                                              Sub(Thi, Tlo)))
                  /\ colOut.TzH = Div(Sub(Thi, Tlo), Sub(zhi, zlo))
            /\ ( /\ colIn.depth = Arr1(<<I(10), I(20)>>) /\ colIn.h = I(15)
                 /\ colIn.T[0] = I(15) /\ colIn.T[1] = I(10) ) =>
                  (colOut.Tb = Rat(25, 2) /\ colOut.TzH = Neg(Half))

\* the worked example
C15_Witness ==
    /\ Called /\ colIn.kbot = 2
    /\ colIn.depth = Arr1(<<I(10), I(20)>>) /\ colIn.h = I(15)
    /\ colIn.T[0] = I(15) /\ colIn.T[1] = I(10)
    /\ colOut.Tb = Rat(25, 2) /\ colOut.TzH = Neg(Half)

(***************************************************************************)
(* C16.  A valid column with only one valid level (bottom_index = 1, for   *)
(* any number of levels), or with a non-finite temperature in its located  *)
(* pair, gets Tb = Tm and Tz_h = 0, and the call returns its six outputs.  *)
(***************************************************************************)
C16_NeutralBoundary ==
    (Called /\ ValidColumn(colIn)) =>
        /\ DOMAIN colOut = {"Tm", "Um", "Vm", "Tb", "TzH", "T0"}
        /\ ( \/ colIn.kbot = 1
             \/ ~isfinite(colIn.T[LocatedPos(colIn)])
             \/ ~isfinite(colIn.T[LocatedPos(colIn) + 1]) ) =>
               (colOut.Tb = colOut.Tm /\ colOut.TzH = Zero)

\* four levels of which one is valid: the pair wraps to (last, first) and
\* is rejected; Tb is the finite mean
C16_Witness ==
    /\ Called /\ colIn.depth = Depth4 /\ colIn.kbot = 1 /\ colIn.h = I(5)
    /\ colIn.T[0] = I(10) /\ colIn.T[1] = I(20)
    /\ colOut.Tm = I(10) /\ colOut.Tb = I(10) /\ colOut.TzH = Zero

(***************************************************************************)
(* Reading a pair of calls back (SpecPair).                                *)
(***************************************************************************)
PairCalled == fnIn # None /\ fnIn.fn = "pair" /\ fnOut # None

\* the inputs of column c in grid g
ColumnInput(g, c) == <<ColOf(g.T, c), ColOf(g.U, c), ColOf(g.V, c), g.H[c], g.topo[c]>>

C18_TooFewFilesFailsClean ==
    /\ [](nfiles < 3 => (pc \in {"start", "failed"} /\ ti = 0 /\ days = <<>>
                          /\ stores \in {NoStores, StaleStores}))
    /\ [][(pc = "start" /\ nfiles < 3) => (pc' = "failed" /\ stores' = stores)]_vars

\* a year of two files has failed and the stores of an earlier run are
\* still there
C18_Witness ==
    /\ pc = "failed" /\ nfiles = 2 /\ days = <<>> /\ stores = StaleStores

(***************************************************************************)
(* C20.  After a successful process_year over N >= 3 daily inputs each of  *)
(* the fifteen stores holds exactly N-1 records, record d being the field  *)
(* of day index d (for the depth and the mean temperature: those of input  *)
(* d), whatever the stores held before: the run starts by emptying every   *)
(* store and each day appends one record to each store and changes no      *)
(* earlier one, so a second run leaves what the first one left.            *)
(***************************************************************************)
C20_StoresRebuilt ==
    /\ [](pc = "done" =>
            /\ nfiles >= 3
            /\ \A f \in StoreNames : Len(stores[f]) = nfiles - 1
            /\ \A d \in 0..(nfiles - 2) :
                  /\ stores["MLD"][d + 1] = HOfDay(d)
                  /\ stores["TML"][d + 1] = TmOfDay(d))
    /\ [](pc = "loop" => \A f \in StoreNames : Len(stores[f]) = ti - 1)
    /\ [][(pc = "start" /\ pc' = "loop") => stores' = NoStores]_vars
    /\ [][(pc = "loop" /\ pc' = "loop") =>
            \A f \in StoreNames :
                /\ Len(stores'[f]) = Len(stores[f]) + 1
                /\ SubSeq(stores'[f], 1, Len(stores[f])) = stores[f]]_vars
    /\ [][(pc = "loop" /\ pc' = "done") => stores' = stores]_vars

\* a year of four files has finished: three records in every store, the
\* first one day 0 and not the record an earlier run left
C20_Witness ==
    /\ pc = "done" /\ nfiles = 4
    /\ \A f \in StoreNames : Len(stores[f]) = 3
    /\ stores["MLD"][1] = HOfDay(0) /\ stores["MLD"][3] = HOfDay(2)
    /\ stores["MLD"][1] # StaleStores["MLD"][1]

(***************************************************************************)
(* Reading the end of main back (SpecMain).                                *)
(***************************************************************************)
MainEnded == drv # None /\ drv.pc \in {"exit", "crashed"}

(***************************************************************************)
(* C19.  In a run over several years a year that fails is reported with    *)
(* its identifier and every other requested year is processed to           *)
(* completion, with parallel workers and with workers = 1 alike.  When     *)
(* main has ended, every year that does not fail is done, and every        *)
(* failing year was printed as an error of that year or ended main with    *)
(* its own error.  The sequential branch violates the first part.          *)
(***************************************************************************)
C19_FailedYearIsolated ==
    MainEnded =>
        \A y \in YearsOf(drv) :
            IF RaisesIn(drv, y)
            THEN y \in drv.reported \/ (drv.pc = "crashed" /\ drv.y = y)
            ELSE y \in drv.done

(***************************************************************************)
(* C21.  For every column that is not skipped the level-pair index pos     *)
(* used for Tb and Tz_h satisfies 0 <= pos <= bottom_index - 2, so that    *)
(* pos and pos+1 address valid levels and nothing is read from outside the *)
(* valid part of the column or wrapped around from the end of the depth    *)
(* array.  With one valid level the clamp gives pos = -1.                  *)
(***************************************************************************)
C21_PairInsideColumn ==
    (Called /\ Processed(colIn)) =>
        \E pos \in {PairPos(colIn.depth, colIn.kbot,
                             ClipH(colIn.h, colIn.depth, colIn.kbot))} :
            /\ 0 <= pos
            /\ pos <= colIn.kbot - 2

(***************************************************************************)
(* C22.  Before capping, the entrainment velocity of the day last written  *)
(* is (h[t+1] - h[t]) / DT in mode 'dhdt', dhdt + div(h*Um, h*Vm) in mode  *)
(* 'full', and in mode 'deepening' max(dhdt + div, 0) where dhdt + div is  *)
(* defined and not-a-number where it is not.  Day t is record t+1; no cap  *)
(* on w_e is configured.  At the cells where the centered divergence does  *)
(* not exist mode 'deepening' gives 0.                                     *)
(***************************************************************************)
C22_EntrainmentModes ==
    (Running /\ NRec >= 1 /\ cfg.we_cap_md = None
             /\ cfg.we_mode \in {"dhdt", "full", "deepening"}) =>
        \E hn \in {HOfDay(NRec)} : \E hc \in {HOfDay(NRec - 1)} :
        \E dv \in {WeDivOf(hc, stores["UML"][NRec], stores["VML"][NRec])} :
            \A c \in Cells :
                \E dhdt \in {Div(Sub(hn[c], hc[c]), I(DT))} :
                    we_use[c] =
                        IF cfg.we_mode = "dhdt" THEN dhdt
                        ELSE IF cfg.we_mode = "full" THEN Add(dhdt, dv[c])
                        ELSE IF isnan(Add(dhdt, dv[c])) THEN NaN
                        ELSE npmaximum(Add(dhdt, dv[c]), Zero)

(***************************************************************************)
(* C23.  After the step for day t the rolling window holds Tm_prev =       *)
(* Tm[t], Tm_prev_prev = Tm[t-1] (empty if day t was the first) and        *)
(* H_prev = h[t], and the current-day buffers hold the fields and depth of *)
(* day t+1; nothing older is kept for a later step.  Before the first step *)
(* of a year the window is empty.  Day t is record t+1.                    *)
(***************************************************************************)
C23_RollingWindow ==
    /\ (pc = "start" \/ (Running /\ NRec = 0)) =>
           (Tm_prev = None /\ Tm_prev_prev = None /\ H_prev = None)
    /\ (Running /\ NRec >= 1) =>
           /\ Tm_prev = TmOfDay(NRec - 1)
           /\ Tm_prev_prev = IF NRec >= 2 THEN TmOfDay(NRec - 2) ELSE None
           /\ H_prev = HOfDay(NRec - 1)
           /\ Len(days) = NRec + 1
           /\ [T |-> T0, U |-> U0, V |-> V0, H |-> H0] = DayFile(NRec)

\* after the steps for days 0 and 1 of patterns A, B, A: the window holds
\* the means of days 1 and 0, which differ, and the buffers hold day 2
C23_Witness ==
    /\ Running /\ NRec = 2 /\ days = <<"A", "B", "A">>
    /\ Tm_prev = TmOfDay(1) /\ Tm_prev_prev = TmOfDay(0)
    /\ Tm_prev # Tm_prev_prev
    /\ H_prev = HOfDay(1) /\ H0 = HOfDay(2) /\ H0 # H_prev

(***************************************************************************)
(* C24.  When a surface-flux record of an iteration cannot be fully read,  *)
(* process_year stops: no later step follows, and the fifteen stores are   *)
(* left as the completed iterations wrote them, ti - 1 records each.  All  *)
(* stores hold the same number of records at every day boundary.           *)
(***************************************************************************)
C24_ShortReadStopsYear ==
    /\ [](\A f \in StoreNames : Len(stores[f]) = Len(stores["TML"]))
    /\ []((pc = "failed" /\ nfiles >= 3) =>
             /\ ti >= 1 /\ ti < nfiles
             /\ Len(days) = ti
             /\ \A f \in StoreNames : Len(stores[f]) = ti - 1)
    /\ [][pc' = "failed" => stores' = stores]_vars
    /\ [][pc # "failed"]_vars

\* the flux record of the third iteration was short: two records in every
\* store, three files opened, two more never processed
C24_Witness ==
    /\ pc = "failed" /\ nfiles = 5 /\ ti = 3
    /\ Len(days) = 3
    /\ \A f \in StoreNames : Len(stores[f]) = 2
    /\ stores["MLD"][2] = HOfDay(1)

(***************************************************************************)
(* Reading the construction of ENT back (SpecEnt).                         *)
(***************************************************************************)
\* x brought into [lo, hi], lo <= hi; a missing x stays missing
Clamped(x, lo, hi) == IF isnan(x) THEN NaN
                      ELSE IF Lt(x, lo) THEN lo
                      ELSE IF Gt(x, hi) THEN hi
                      ELSE x

(***************************************************************************)
(* C25.  ENT is built in this order: dT is clamped to [-|dT_cap|,          *)
(* |dT_cap|] when dT_cap is set; ENT = -(w_e / h_den) * dT_eff; a positive *)
(* value is zeroed when ent_only_cooling is set; and when ent_cap_kpd is   *)
(* set, with cap = ent_cap_kpd / 86400 >= 0, the value is brought into     *)
(* [-cap, 0] if cooling-only and into [-cap, cap] otherwise.  This holds   *)
(* wherever the product is defined, for every combination of the three     *)
(* options.                                                                *)
(***************************************************************************)
C25_EntConstruction ==
    EntCalled =>
        \A c \in Cells :
            \E dTe \in {IF fnIn.cfg.dT_cap = None THEN fnIn.dT[c]
                        ELSE Clamped(fnIn.dT[c], Neg(absval(fnIn.cfg.dT_cap)),
                                     absval(fnIn.cfg.dT_cap))} :
            \E e0 \in {Mul(Neg(Div(fnOut.we[c], fnIn.hden[c])), dTe)} :
            \E e1 \in {IF fnIn.cfg.ent_only_cooling /\ Gt(e0, Zero) THEN Zero ELSE e0} :
            \E hi \in {IF fnIn.cfg.ent_only_cooling \/ fnIn.cfg.ent_cap_kpd = None
                        THEN Zero ELSE Div(fnIn.cfg.ent_cap_kpd, I(DAY_S))} :
                ~isnan(e0) =>
                    /\ fnIn.cfg.ent_cap_kpd = None => fnOut.ENT[c] = e1
                    /\ (fnIn.cfg.ent_cap_kpd # None /\ Ge(fnIn.cfg.ent_cap_kpd, Zero)) =>
                          /\ fnOut.ENT[c] = Clamped(e1, Neg(Div(fnIn.cfg.ent_cap_kpd, I(DAY_S))), hi)
                          /\ Le(Neg(Div(fnIn.cfg.ent_cap_kpd, I(DAY_S))), fnOut.ENT[c])
                          /\ Le(fnOut.ENT[c], hi)

\* all three options set, warming allowed: dT = -4 is cut to -2 by
\* dT_cap = -2, the product -(2/10) * (-2) = 2/5 is positive and within the
\* cap; the land cell stays missing
C25_Witness ==
    /\ EntCalled /\ ~fnIn.cfg.ent_only_cooling
    /\ fnIn.cfg.dT_cap = I(-2) /\ fnIn.cfg.ent_cap_kpd = I(1)
    /\ fnIn.cfg.we_mode = "dhdt" /\ fnIn.cfg.we_cap_md = None
    /\ fnIn.ht[<<1, 1>>] = I(2) /\ fnIn.dT[<<1, 1>>] = I(-4) /\ fnIn.hden[<<1, 1>>] = I(10)
    /\ fnOut.ENT[<<1, 1>>] = Rat(2, 5)
    /\ isnan(fnOut.ENT[<<0, 0>>])

(***************************************************************************)
(* Reading the horizontal diffusion back.                                  *)
(***************************************************************************)
\* a cell off the first and last row and column
InteriorCell(c) == c[1] >= 1 /\ c[1] <= Ny - 2 /\ c[2] >= 1 /\ c[2] <= Nx - 2

\* the flux w * (a - b) / d through one face
FaceFlux(w, a, b, d) == Div(Mul(w, Sub(a, b)), d)

\* the divergence of the fluxes wgt * grad(fld) at c, from c and its four
\* axis neighbours
FluxDivergence(wgt, fld, c, dxj, dy) ==
    Add(Div(Sub(FaceFlux(wgt[<<c[1], c[2] + 1>>], fld[<<c[1], c[2] + 1>>], fld[c], dxj),
                FaceFlux(wgt[c], fld[c], fld[<<c[1], c[2] - 1>>], dxj)), dxj),
        Div(Sub(FaceFlux(wgt[<<c[1] + 1, c[2]>>], fld[<<c[1] + 1, c[2]>>], fld[c], dy),
                FaceFlux(wgt[c], fld[c], fld[<<c[1] - 1, c[2]>>], dy)), dy))

\* np.where(h < hmin, hmin, h) at one cell
FloorAt(h) == IF Lt(h, cfg.hmin) THEN cfg.hmin ELSE h

\* h_den at c: the floored depth of the day, or its mean with the next day's
DenomAt(h0, h1) ==
    IF cfg.use_hbar_denom
    THEN Mul(Half, Add(FloorAt(h0), FloorAt(h1)))
    ELSE FloorAt(h0)

(***************************************************************************)
(* C26.  In the DIFF record of the day last written every cell of the      *)
(* first and last row and column is not-a-number, and so is every interior *)
(* cell whose Tm or h is not finite; every other interior cell holds       *)
(* (Ah / h_den) * (div1 - div2), div1 the divergence of the fluxes         *)
(* h * grad(Tm) and div2 that of (Tm - Tb) * grad(h), both taken from the  *)
(* cell and its four axis neighbours only.                                 *)
(***************************************************************************)
C26_HorizontalDiffusion ==
    (Running /\ NRec >= 1) =>
        \E Tm \in {stores["TML"][NRec]} : \E H \in {stores["MLD"][NRec]} :
        \E dT \in {Array([c \in Cells |-> Sub(stores["TML"][NRec][c], stores["TB"][NRec][c])])} :
            \A c \in Cells :
                IF ~InteriorCell(c) \/ ~isfinite(Tm[c]) \/ ~isfinite(H[c])
                THEN isnan(stores["DIFF"][NRec][c])
                ELSE stores["DIFF"][NRec][c] =
                        Mul(Div(cfg.ah, DenomAt(H[c], HOfDay(NRec)[c])),
                            Sub(FluxDivergence(H, Tm, c, Mul(I(DY), CosLat[c[1]]), I(DY)),
                                FluxDivergence(dT, H, c, Mul(I(DY), CosLat[c[1]]), I(DY))))

\* the interior ocean cell of "coast" with four ocean neighbours: a finite
\* diffusion that is not zero
C26_Witness ==
    /\ Running /\ NRec >= 1 /\ dataset = "coast"
    /\ \A c \in {<<1, 1>>, <<0, 1>>, <<2, 1>>, <<1, 0>>, <<1, 2>>} :
          isfinite(stores["TML"][NRec][c]) /\ isfinite(stores["TB"][NRec][c])
    /\ isfinite(stores["DIFF"][NRec][<<1, 1>>])
    /\ stores["DIFF"][NRec][<<1, 1>>] # Zero
    /\ isnan(stores["DIFF"][NRec][<<0, 1>>])

(***************************************************************************)
(* C27.  For every column, bottom_index computed from the first day's      *)
(* temperature equals the number of finite levels of the column, lies in   *)
(* 0..Nz, and is 0 exactly for land (no finite level); columns with a      *)
(* finite level below a non-finite one included.  Later days leave it as   *)
(* it is.  A column with a missing level above a finite one gets the index *)
(* of its first missing level.                                             *)
(***************************************************************************)
C27_TopoCountsFiniteLevels ==
    (fnIn # None /\ fnIn.fn = "topo" /\ fnOut # None) =>
        \A c \in Cells :
            \E finite \in {{k \in Lv : isfinite(fnIn.first[k][c])}} :
                /\ fnOut.topo[c] = Cardinality(finite)
                /\ fnOut.topo[c] \in 0..Nz
                /\ fnOut.topo[c] = 0 <=> finite = {}

(***************************************************************************)
(* C27 (amended).  For every column, bottom_index computed from the first  *)
(* day's temperature is the index of the first non-finite level: the       *)
(* number of finite levels above it (Nz when every level is finite).  It   *)
(* lies in 0..Nz, is 0 exactly when the top level is not finite (land      *)
(* included), and equals the number of finite levels of the column         *)
(* whenever no finite level lies below a non-finite one.  Later days leave *)
(* it as it is.                                                            *)
(***************************************************************************)
C27_TopoFirstMissingLevel ==
    /\ []((fnIn # None /\ fnIn.fn = "topo" /\ fnOut # None) =>
            \A c \in Cells :
                \E finite \in {{k \in Lv : isfinite(fnIn.first[k][c])}} :
                \E above \in {{k \in Lv : \A l \in 0..k : isfinite(fnIn.first[l][c])}} :
                    /\ fnOut.topo[c] = Cardinality(above)
                    /\ fnOut.topo[c] \in 0..Nz
                    /\ fnOut.topo[c] = 0 <=> ~isfinite(fnIn.first[0][c])
                    /\ finite = {} => fnOut.topo[c] = 0
                    /\ finite = above => fnOut.topo[c] = Cardinality(finite))
    /\ [][(fnIn # None /\ fnIn.fn = "topo" /\ fnOut # None) => fnOut' = fnOut]_vars

\* a column with level 1 missing between finite levels has bottom_index 1,
\* and a later day with other columns has not changed it
C27_Witness ==
    /\ fnIn # None /\ fnIn.fn = "topo" /\ fnOut # None
    /\ fnIn.T # fnIn.first
    /\ \E c \in Cells :
          /\ isfinite(fnIn.first[0][c]) /\ isnan(fnIn.first[1][c])
          /\ isfinite(fnIn.first[2][c])
          /\ fnOut.topo[c] = 1
          /\ \A k \in Lv : isfinite(fnIn.T[k][c])

(***************************************************************************)
(* C28.  For a column that is not skipped, with at least two valid levels  *)
(* and a finite located pair, the weight alpha = (h - depth[pos]) /        *)
(* (depth[pos+1] - depth[pos]) lies in [0,1] and Tb lies between T[pos]    *)
(* and T[pos+1] inclusive, for every admissible h, also one smaller than   *)
(* depth[0] or clipped to the deepest valid centre.  For h above the first *)
(* centre alpha is negative.                                               *)
(***************************************************************************)
C28_TbIsInterpolated ==
    (Called /\ Processed(colIn) /\ colIn.kbot >= 2) =>
        LET pos == LocatedPos(colIn)
            zlo == colIn.depth[pos]
            zhi == colIn.depth[pos + 1]
            Tlo == colIn.T[pos]
            Thi == colIn.T[pos + 1]
        IN  (isfinite(Tlo) /\ isfinite(Thi) /\ Gt(zhi, zlo)) =>
                /\ Le(Zero, Div(Sub(HClipped(colIn), zlo), Sub(zhi, zlo)))
                /\ Le(Div(Sub(HClipped(colIn), zlo), Sub(zhi, zlo)), One)
                /\ Le(npminimum(Tlo, Thi), colOut.Tb)
                /\ Le(colOut.Tb, npmaximum(Tlo, Thi))

(***************************************************************************)
(* C29.  The mixed-layer depth emitted for a day is the one the vertical   *)
(* diagnostics used: where the input h exceeds the deepest valid centre    *)
(* depth[bottom_index-1] the MLD record holds the clipped value, so that   *)
(* every emitted thickness of an ocean column with finite h > 0 satisfies  *)
(* 0 < h <= depth[bottom_index-1].  The record holds the input h.          *)
(***************************************************************************)
C29_OneThickness ==
    (Running /\ NRec >= 1) =>
        \E hin \in {HOfDay(NRec - 1)} :
            \A c \in Cells :
                (topo[c] >= 1 /\ isfinite(hin[c]) /\ Gt(hin[c], Zero)) =>
                    /\ stores["MLD"][NRec][c] = npminimum(hin[c], GridDepth[topo[c] - 1])
                    /\ Gt(stores["MLD"][NRec][c], Zero)
                    /\ Le(stores["MLD"][NRec][c], GridDepth[topo[c] - 1])

(***************************************************************************)
(* C30.  For any list of years the driver accepts, one naming a year more  *)
(* than once included, no two workers that run at the same time delete or  *)
(* append to the same stores: the stores of a worker are those of its      *)
(* year, so no two running workers have the same year.  A year named twice *)
(* is submitted twice.                                                     *)
(***************************************************************************)
C30_WorkersOnDisjointStores ==
    (drv # None /\ drv.pc = "par") =>
        \A p \in drv.running : \A q \in drv.running :
            p # q => drv.years[p] # drv.years[q]

=============================================================================
